---- MODULE Spec2Model ----
(***************************************************************************)
(* A model of the AgentJobs task lifecycle core: the YAML record store     *)
(* (storage.py), the task entity and its validation (models.py), the       *)
(* TaskManager operations (manager.py) and the webhook registry and        *)
(* dispatcher (webhooks.py).                                               *)
(*                                                                         *)
(* Strings that the code takes apart or builds (task identifiers, file     *)
(* stems) are sequences of one-character strings.  Optional[...] values    *)
(* are sequences of length 0 (None) or 1.  Timestamps are readings of an   *)
(* integer clock that never goes back.                                     *)
(***************************************************************************)
EXTENDS Integers, Sequences, FiniteSets, TLC

---------------------------------------------------------------------------
(* Bounds of the model *)

\* Last reading of the clock.
MaxClock == 1

\* Number of operations a run of the task manager performs.
MaxOps == 3

\* Largest task number in a tasks directory that exists before the run.
MaxSeeded == 7

\* The largest number of _dispatch coroutines scheduled in one run.
MaxDispatches == 3

---------------------------------------------------------------------------
(* Characters and strings *)

\* The characters of the identifiers used, in code-point order.
Alphabet ==
    << "-", ".", "0", "1", "2", "3", "4", "5", "6", "7", "8", "9",
       "a", "e", "k", "l", "m", "n", "o", "s", "t", "y" >>

DigitChars == << "0", "1", "2", "3", "4", "5", "6", "7", "8", "9" >>

CharCode(c) == CHOOSE i \in 1..Len(Alphabet) : Alphabet[i] = c

DigitValue(c) == (CHOOSE i \in 1..Len(DigitChars) : DigitChars[i] = c) - 1

IsDigit(c) == \E i \in 1..Len(DigitChars) : DigitChars[i] = c

\* Lexicographic order of two strings, by code point (Python's str.__lt__).
\* a is a proper prefix of b, or the first character in which they differ is
\* the smaller one in a.
StrLess(a, b) ==
    \/ /\ Len(a) < Len(b)
       /\ SubSeq(b, 1, Len(a)) = a
    \/ \E i \in 1..Len(a) :
         /\ i <= Len(b)
         /\ SubSeq(a, 1, i - 1) = SubSeq(b, 1, i - 1)
         /\ a[i] # b[i]
         /\ CharCode(a[i]) < CharCode(b[i])

StartsWith(s, p) == Len(s) >= Len(p) /\ SubSeq(s, 1, Len(p)) = p

\* int(text) for the texts the identifiers here give: a non-empty run of
\* decimal digits is its value, anything else raises ValueError (-1 here).
RECURSIVE DigitsValue(_, _)
DigitsValue(s, acc) ==
    IF s = << >> THEN acc
    ELSE DigitsValue(Tail(s), 10 * acc + DigitValue(Head(s)))

ParseInt(s) ==
    IF s # << >> /\ \A i \in 1..Len(s) : IsDigit(s[i])
    THEN DigitsValue(s, 0)
    ELSE -1

\* The decimal digits of n >= 0.
RECURSIVE DigitsOf(_)
DigitsOf(n) ==
    IF n < 10 THEN << DigitChars[n + 1] >>
    ELSE Append(DigitsOf(n \div 10), DigitChars[(n % 10) + 1])

RECURSIVE ZeroPad(_, _)
ZeroPad(s, width) == IF Len(s) >= width THEN s ELSE ZeroPad(<< "0" >> \o s, width)

\* f"{n:03d}"
Format03d(n) == ZeroPad(DigitsOf(n), 3)

TaskPrefix == << "t", "a", "s", "k", "-" >>

YamlSuffix == << ".", "y", "a", "m", "l" >>

---------------------------------------------------------------------------
(* The task entity (models.py) *)

Last(seq) == seq[Len(seq)]

\* Optional[...] values.
None == << >>

Some(x) == << x >>

\* The members of TaskStatus that manager.py names but the enumeration under
\* src/ does not list; their values are the ones the tests and the
\* specification give.
DRAFT == "draft"

READY == "ready"

PLANNED == "planned"

IN_PROGRESS == "in_progress"

COMPLETED == "completed"

ARCHIVED == "archived"

TaskStatus ==
    { DRAFT, PLANNED, READY, IN_PROGRESS, "blocked", "waiting_for_human",
      "under_review", COMPLETED, ARCHIVED }

Priority == { "low", "medium", "high", "critical" }

DeliverableStatus == { "pending", "in_progress", "completed" }

\* Task.priority_rank
priority_rank(priority) ==
    CASE priority = "critical" -> 0
      [] priority = "high" -> 1
      [] priority = "medium" -> 2
      [] priority = "low" -> 3

\* StatusUpdate(timestamp, author, status, summary, details)
StatusUpdate(timestamp, author, status, summary, details) ==
    [ timestamp |-> timestamp, author |-> author, status |-> status,
      summary |-> summary, details |-> details ]

\* Prompts(starter, followups)
Prompts(starter, followups) == [ starter |-> starter, followups |-> followups ]

\* Prompt(timestamp, author, content, context)
Prompt(timestamp, author, content, context) ==
    [ timestamp |-> timestamp, author |-> author, content |-> content,
      context |-> context ]

\* Comment(id, task_id, author, content, created, kind, reply_to)
Comment(id, task_id, author, content, created, kind, reply_to) ==
    [ id |-> id, task_id |-> task_id, author |-> author, content |-> content,
      created |-> created, kind |-> kind, reply_to |-> reply_to ]

\* The fields of a Task that the model carries.
TaskFields ==
    { "id", "title", "description", "created", "updated", "status", "priority",
      "status_updates", "deliverables", "prompts", "comments" }

\* The fields of a Task without a default: a document lacking one fails
\* validation.
RequiredFields == { "id", "title", "description", "created", "updated" }

\* F(v) for the value v of an expression: the expression is evaluated once,
\* however often F refers to its argument.
ValueAt(F(_), e) == CHOOSE r \in { F(v) : v \in { e } } : TRUE

Field(doc, name, default) == IF name \in DOMAIN doc THEN doc[name] ELSE default

\* The field validators: every enumerated value lies in its closed set.
FieldsValid(t) ==
    /\ t.status \in TaskStatus
    /\ t.priority \in Priority
    /\ \A i \in 1..Len(t.status_updates) : t.status_updates[i].status \in TaskStatus
    /\ \A i \in 1..Len(t.deliverables) : t.deliverables[i].status \in DeliverableStatus

\* Task.model_validate on a mapping of field values: the Task it builds, with
\* the defaults of the fields left out.
BuildTask(payload) ==
    [ id |-> payload.id,
      title |-> payload.title,
      description |-> payload.description,
      created |-> payload.created,
      updated |-> payload.updated,
      status |-> Field(payload, "status", PLANNED),
      priority |-> Field(payload, "priority", "medium"),
      status_updates |-> Field(payload, "status_updates", << >>),
      deliverables |-> Field(payload, "deliverables", << >>),
      prompts |-> Field(payload, "prompts", Prompts("", << >>)),
      comments |-> Field(payload, "comments", << >>) ]

\* A validation that looks at the required fields only.
Validates_RequiredOnly(payload) == RequiredFields \subseteq DOMAIN payload

\* Whether Task.model_validate accepts the mapping.
Validates(payload) ==
    /\ RequiredFields \subseteq DOMAIN payload
    /\ FieldsValid(BuildTask(payload))

\* A dump that leaves the details key out of every status update.
DumpStatusUpdate_DropsDetails(u) ==
    [ timestamp |-> u.timestamp, author |-> u.author, status |-> u.status,
      summary |-> u.summary ]

\* model_dump(mode="json", exclude_none=True) of one status update: a details
\* of None leaves no key in the document.
DumpStatusUpdate(u) ==
    IF u.details = None
    THEN [ timestamp |-> u.timestamp, author |-> u.author, status |-> u.status,
           summary |-> u.summary ]
    ELSE [ timestamp |-> u.timestamp, author |-> u.author, status |-> u.status,
           summary |-> u.summary, details |-> u.details[1] ]

\* The status update read back from its document.
ParseStatusUpdate(d) ==
    StatusUpdate(d.timestamp, d.author, d.status, d.summary,
                 IF "details" \in DOMAIN d THEN Some(d.details) ELSE None)

\* A follow-up prompt as model_dump(mode="json", exclude_none=True) writes it:
\* the context key is left out when the context is None.
DumpPrompt(p) ==
    IF p.context = None
    THEN [ timestamp |-> p.timestamp, author |-> p.author, content |-> p.content ]
    ELSE [ timestamp |-> p.timestamp, author |-> p.author, content |-> p.content,
           context |-> p.context[1] ]

\* The follow-up prompt read back from its document.
ParsePrompt(d) ==
    Prompt(d.timestamp, d.author, d.content,
           IF "context" \in DOMAIN d THEN Some(d.context) ELSE None)

\* Task.model_dump(mode="json", exclude_none=True): the document written to
\* the task's file.
ModelDumpJson(t) ==
    [ t EXCEPT !.status_updates =
                 [ i \in 1..Len(t.status_updates) |-> DumpStatusUpdate(t.status_updates[i]) ],
               !.prompts.followups =
                 [ i \in 1..Len(t.prompts.followups) |-> DumpPrompt(t.prompts.followups[i]) ] ]

\* The mapping Task.model_validate receives from a parsed file.
ParseDocument(doc) ==
    LET updates == IF "status_updates" \in DOMAIN doc
                   THEN [ doc EXCEPT !.status_updates =
                            [ i \in 1..Len(doc.status_updates) |->
                                ParseStatusUpdate(doc.status_updates[i]) ] ]
                   ELSE doc
    IN IF "prompts" \in DOMAIN updates
       THEN [ updates EXCEPT !.prompts.followups =
                [ i \in 1..Len(updates.prompts.followups) |->
                    ParsePrompt(updates.prompts.followups[i]) ] ]
       ELSE updates

---------------------------------------------------------------------------
(* State *)

VARIABLES
    files,            \* the tasks directory: file stem -> document of the file
    clock,            \* the current reading of datetime.now
    webhook_manager,  \* whether the TaskManager was given a WebhookManager
    fired,            \* the fire_event calls of the latest operation, in order
    ret,              \* the latest operation: its name, arguments and result
    ops,              \* the number of operations performed
    calls,            \* the update_status calls of the concurrent callers
    webhooks,         \* the webhooks file: the list of registered webhooks
    dispatches        \* the _dispatch coroutines scheduled so far, in order

vars == << files, clock, webhook_manager, fired, ret, ops, calls, webhooks, dispatches >>

\* The readings datetime.now can give after a reading of t.
Later(t) == { u \in t..(t + 1) : u <= MaxClock }

---------------------------------------------------------------------------
(* The record store (storage.py, TaskStorage) *)

\* A file that does not parse as YAML.
Unparseable == [ yaml_error |-> TRUE ]

\* A file with no content.
EmptyFile == << >>

\* A file whose bytes are not UTF-8 text.
Undecodable == [ decode_error |-> TRUE ]

\* TaskStorage.load_task raises: path.read_text(encoding="utf-8") fails with
\* UnicodeDecodeError, which is not a yaml.YAMLError and so passes the except
\* clause.
load_task_raises(fs, task_id) ==
    /\ task_id \in DOMAIN fs
    /\ "decode_error" \in DOMAIN fs[task_id]

\* TaskStorage.list_tasks raises: one of its load_task calls does.
list_tasks_raises(fs) == \E stem \in DOMAIN fs : load_task_raises(fs, stem)

\* TaskStorage.load_task: what it returns when it does not raise.
load_task(fs, task_id) ==
    IF task_id \notin DOMAIN fs THEN None
    ELSE IF "yaml_error" \in DOMAIN fs[task_id] THEN None
    ELSE IF fs[task_id] = EmptyFile THEN None
    ELSE IF Validates(ParseDocument(fs[task_id]))
         THEN Some(BuildTask(ParseDocument(fs[task_id])))
         ELSE None

\* A save that leaves the updated timestamp of the task as it finds it.
SavedTask_KeepsUpdated(task, now) == task

\* TaskStorage.save_task, at clock reading now: the Task it returns.
SavedTask(task, now) == [ task EXCEPT !.updated = now ]

\* TaskStorage.save_task, at clock reading now: the directory it leaves.
save_task(fs, task, now) ==
    (task.id :> ModelDumpJson(SavedTask(task, now))) @@ fs

\* The file name of a stem, as far as the order of file names depends on it.
FileName(stem) == stem \o YamlSuffix

\* sorted(...) of a set of stems, by file name.
RECURSIVE SortedStems(_)
SortedStems(S) ==
    IF S = {} THEN << >>
    ELSE LET first == CHOOSE a \in S :
                        \A b \in S \ {a} : StrLess(FileName(a), FileName(b))
         IN << first >> \o SortedStems(S \ {first})

\* The entries of a list of Optional values that are not None.
RECURSIVE Present(_)
Present(opts) ==
    IF opts = << >> THEN << >>
    ELSE Head(opts) \o Present(Tail(opts))

\* A listing that walks the files from the last file name to the first.
list_tasks_LastFileFirst(fs) ==
    LET stems == SortedStems(DOMAIN fs)
    IN Present([ i \in 1..Len(stems) |-> load_task(fs, stems[Len(stems) + 1 - i]) ])

\* TaskStorage.list_tasks
list_tasks(fs) ==
    LET Loaded(stems) ==
          ValueAt(Present, [ i \in 1..Len(stems) |-> load_task(fs, stems[i]) ])
    IN ValueAt(Loaded, SortedStems(DOMAIN fs))

\* The numbers generate_task_id reads off the file stems: those of the
\* stems "task-<digits>".
StemNumbers(fs) ==
    { ParseInt(SubSeq(stem, Len(TaskPrefix) + 1, Len(stem))) :
        stem \in { s \in DOMAIN fs : StartsWith(s, TaskPrefix) } } \ { -1 }

Max(S) == CHOOSE m \in S : \A n \in S : n <= m

\* An id generator that hands out the first free number.
generate_task_id_FirstFree(fs) ==
    TaskPrefix \o Format03d(CHOOSE n \in 1..(Cardinality(DOMAIN fs) + 1) :
                                /\ n \notin StemNumbers(fs)
                                /\ \A m \in 1..(n - 1) : m \in StemNumbers(fs))

\* TaskStorage.generate_task_id
generate_task_id(fs) ==
    TaskPrefix \o Format03d(Max(StemNumbers(fs) \union {0}) + 1)

\* A delete that leaves the file in place.
delete_task_KeepsFile(fs, task_id) == fs

\* TaskStorage.delete_task: the directory it leaves.
delete_task(fs, task_id) ==
    [ stem \in DOMAIN fs \ {task_id} |-> fs[stem] ]

---------------------------------------------------------------------------
(* The task manager (manager.py, TaskManager) *)

\* What an operation leaves in ret.
Ret(op, id, args, outcome, value) ==
    [ op |-> op, id |-> id, args |-> args, outcome |-> outcome, value |-> value ]

\* An operation that raises before it writes: nothing is saved, no event is
\* fired.
Raises(op, id, args, outcome) ==
    /\ ret' = Ret(op, id, args, outcome, None)
    /\ fired' = << >>
    /\ UNCHANGED << files, clock >>

\* An operation that saves task and returns value, having made the
\* fire_event calls events.
Saves(op, id, args, task, saved_at, events, value) ==
    /\ files' = save_task(files, task, saved_at)
    /\ clock' = saved_at
    /\ fired' = events
    /\ ret' = Ret(op, id, args, "ok", value)

\* One call of WebhookManager.fire_event.
Event(event, task, metadata) ==
    [ event |-> event, task |-> task, metadata |-> metadata ]

\* create_task without its test for a stored record.
Collides_Never(fs, task_id) == FALSE

\* The test of create_task for a record already stored under the identifier.
Collides(fs, task_id) == load_task(fs, task_id) # None

\* TaskManager.create_task(id, title, description, priority, **kwargs)
create_task(id, title, description, priority, kwargs) ==
    LET task_id == IF id = None THEN generate_task_id(files) ELSE id
        args == [ title |-> title, description |-> description,
                  priority |-> priority, kwargs |-> kwargs ]
        now == clock
        task_kwargs ==
            kwargs @@
            [ id |-> task_id, title |-> title, description |-> description,
              priority |-> priority, created |-> now, updated |-> now,
              status |-> DRAFT, prompts |-> Prompts(description, << >>) ]
    IN IF Collides(files, task_id)
       THEN Raises("create_task", id, args, "already_exists")
       ELSE IF ~Validates(task_kwargs)
       THEN Raises("create_task", id, args, "invalid")
       ELSE \E saved_at \in Later(now) :
              Saves("create_task", id, args, BuildTask(task_kwargs), saved_at, << >>,
                    Some(SavedTask(BuildTask(task_kwargs), saved_at)))

\* Events that are fired only when the status has changed.
StatusEvents_OnChange(task, status, author, previous_status) ==
    LET event_metadata == [ triggered_by |-> author, previous_status |-> previous_status ]
    IN (IF status # previous_status
        THEN << Event("task.status_changed", task, event_metadata) >>
        ELSE << >>)
       \o (IF status = COMPLETED
           THEN << Event("task.completed", task, event_metadata) >>
           ELSE << >>)

\* The fire_event calls of update_status.
StatusEvents(task, status, author, previous_status) ==
    LET event_metadata == [ triggered_by |-> author, previous_status |-> previous_status ]
    IN << Event("task.status_changed", task, event_metadata) >>
       \o (IF status = COMPLETED
           THEN << Event("task.completed", task, event_metadata) >>
           ELSE << >>)

\* A status change that leaves a completed or archived task in its status.
WithStatus_TerminalStays(task, now, status, author, summary, details) ==
    [ task EXCEPT !.status = IF @ \in { COMPLETED, ARCHIVED } THEN @ ELSE status,
                  !.status_updates =
                      Append(@, StatusUpdate(now, author, status, summary, details)) ]

\* update_status whose new status update carries the status the task had.
WithStatus_StaleEntry(task, now, status, author, summary, details) ==
    [ task EXCEPT !.status = status,
                  !.status_updates =
                      Append(@, StatusUpdate(now, author, task.status, summary, details)) ]

\* update_status that puts the new status update in front of the history.
WithStatus_InFront(task, now, status, author, summary, details) ==
    [ task EXCEPT !.status = status,
                  !.status_updates =
                      << StatusUpdate(now, author, status, summary, details) >> \o @ ]

\* The task update_status hands to save_task: the loaded task with the new
\* status and one more status update.
WithStatus(task, now, status, author, summary, details) ==
    [ task EXCEPT !.status = status,
                  !.status_updates =
                      Append(@, StatusUpdate(now, author, status, summary, details)) ]

\* The body of update_status, run for operation op (update_status itself, or
\* archive_task, which calls it).
UpdateStatusFor(op, args, task_id, status, author, summary, details) ==
    \E loaded \in { load_task(files, task_id) } :
       IF loaded = None
       THEN Raises(op, task_id, args, "not_found")
       ELSE LET task == loaded[1]
                previous_status == task.status
                now == clock
                changed == WithStatus(task, now, status, author, summary, details)
            IN IF status \notin TaskStatus
               THEN Raises(op, task_id, args, "invalid")
               ELSE \E saved_at \in Later(now) :
                      Saves(op, task_id, args, changed, saved_at,
                            IF webhook_manager
                            THEN StatusEvents(SavedTask(changed, saved_at),
                                              status, author, previous_status)
                            ELSE << >>,
                            Some(SavedTask(changed, saved_at)))

\* TaskManager.update_status(task_id, status, author, summary, details)
update_status(task_id, status, author, summary, details) ==
    UpdateStatusFor("update_status",
                    [ status |-> status, author |-> author, summary |-> summary,
                      details |-> details ],
                    task_id, status, author, summary, details)

\* An archive that records an author left out as "anonymous".
ArchiveAuthor_Anonymous(author) ==
    IF author = None \/ author[1] = "" THEN "anonymous" ELSE author[1]

\* author or "system": None and the empty string both give "system".
ArchiveAuthor(author) ==
    IF author = None \/ author[1] = "" THEN "system" ELSE author[1]

\* TaskManager.archive_task(task_id, author)
archive_task(task_id, author) ==
    IF load_task(files, task_id) = None
    THEN Raises("archive_task", task_id, [ author |-> author ], "not_found")
    ELSE UpdateStatusFor("archive_task", [ author |-> author ], task_id, ARCHIVED,
                         ArchiveAuthor(author), "Task archived.", None)

\* An operation that only reads and returns value.
Returns(op, id, args, value) ==
    /\ ret' = Ret(op, id, args, "ok", value)
    /\ fired' = << >>
    /\ UNCHANGED << files, clock >>

\* TaskManager.get_task(task_id)
get_task(task_id) ==
    Returns("get_task", task_id, << >>, load_task(files, task_id))

\* A listing that keeps the tasks matching either filter.
ListTasks_EitherFilter(fs, status, priority) ==
    LET Matches(t) == \/ status = None /\ priority = None
                      \/ status # None /\ t.status = status[1]
                      \/ priority # None /\ t.priority = priority[1]
    IN SelectSeq(list_tasks(fs), Matches)

\* TaskManager.list_tasks(status, priority): the list it returns.
ListTasks(fs, status, priority) ==
    LET HasStatus(t) == status = None \/ t.status = status[1]
        HasPriority(t) == priority = None \/ t.priority = priority[1]
    IN SelectSeq(SelectSeq(list_tasks(fs), HasStatus), HasPriority)

\* A sort key that puts the least recently updated task first.
KeyLess_OldestFirst(a, b) ==
    \/ priority_rank(a.priority) < priority_rank(b.priority)
    \/ /\ priority_rank(a.priority) = priority_rank(b.priority)
       /\ a.updated < b.updated

\* A sort key that puts the least urgent priority first.
KeyLess_LeastUrgentFirst(a, b) ==
    \/ priority_rank(a.priority) > priority_rank(b.priority)
    \/ /\ priority_rank(a.priority) = priority_rank(b.priority)
       /\ (0 - a.updated) < (0 - b.updated)

\* The sort key of get_next_task: (priority_rank, -updated).
KeyLess(a, b) ==
    \/ priority_rank(a.priority) < priority_rank(b.priority)
    \/ /\ priority_rank(a.priority) = priority_rank(b.priority)
       /\ (0 - a.updated) < (0 - b.updated)

\* list.sort(key=...): the stable sort of a list by KeyLess.
RECURSIVE Insert(_, _)
Insert(sorted, t) ==
    IF sorted = << >> THEN << t >>
    ELSE IF KeyLess(t, Head(sorted)) THEN << t >> \o sorted
    ELSE << Head(sorted) >> \o Insert(Tail(sorted), t)

RECURSIVE Sorted(_)
Sorted(seq) ==
    IF seq = << >> THEN << >>
    ELSE Insert(Sorted(SubSeq(seq, 1, Len(seq) - 1)), seq[Len(seq)])

\* get_next_task without its filter on the status.
Candidates_AnyStatus(fs) == list_tasks(fs)

\* get_next_task that takes the planned tasks for the available ones.
Candidates_Planned(fs) ==
    LET IsPlanned(t) == t.status = PLANNED
    IN SelectSeq(list_tasks(fs), IsPlanned)

\* The candidates of get_next_task: the stored tasks whose status is ready.
Candidates(fs) ==
    LET IsReady(t) == t.status = READY
    IN SelectSeq(list_tasks(fs), IsReady)

\* TaskManager.get_next_task(priority): the task it returns, or None.
NextTask(fs, priority) ==
    LET HasPriority(t) == priority = None \/ t.priority = priority[1]
        First(candidates) ==
          IF candidates = << >> THEN None ELSE Some(Sorted(candidates)[1])
    IN ValueAt(First, SelectSeq(Candidates(fs), HasPriority))

\* A get_next_task that takes the task it returns: it stores it as in
\* progress.
get_next_task_Claims(priority) ==
    LET next == NextTask(files, priority)
    IN IF next = None
       THEN Returns("get_next_task", None, [ priority |-> priority ], None)
       ELSE Saves("get_next_task", None, [ priority |-> priority ],
                  [ next[1] EXCEPT !.status = IN_PROGRESS ], clock, << >>, next)

\* TaskManager.get_next_task(priority)
get_next_task(priority) ==
    Returns("get_next_task", None, [ priority |-> priority ], NextTask(files, priority))

\* The characters of the titles and descriptions the tasks here carry.
TextChars ==
    ("Title" :> << "T", "i", "t", "l", "e" >>)
    @@ ("Updated" :> << "U", "p", "d", "a", "t", "e", "d" >>)
    @@ ("Description" :> << "D", "e", "s", "c", "r", "i", "p", "t", "i", "o", "n" >>)

\* str.lower, over the letters of those texts and of the queries.
LowerChar(c) ==
    CASE c = "T" -> "t" [] c = "U" -> "u" [] c = "D" -> "d" [] c = "I" -> "i"
      [] c = "S" -> "s" [] OTHER -> c

Lower(text) == [ i \in 1..Len(text) |-> LowerChar(text[i]) ]

\* needle in haystack, for strings
Contains(haystack, needle) ==
    \E i \in 0..(Len(haystack) - Len(needle)) :
        SubSeq(haystack, i + 1, i + Len(needle)) = needle

\* TaskStorage.search_tasks(query): the tasks of list_tasks whose title or
\* description contains the query, whatever the case (the tasks here have no
\* human_summary and no tags).
SearchTasks(fs, query) ==
    LET normalized == Lower(query)
        Hit(task) == \/ Contains(Lower(TextChars[task.title]), normalized)
                     \/ Contains(Lower(TextChars[task.description]), normalized)
    IN SelectSeq(list_tasks(fs), Hit)

\* TaskManager.search_tasks(query)
search_tasks(query) ==
    Returns("search_tasks", None, [ query |-> query ], SearchTasks(files, query))

\* dict.setdefault(key, value)
SetDefault(payload, key, value) ==
    IF key \in DOMAIN payload THEN payload ELSE (key :> value) @@ payload

\* A replace that starts from a blank task: only identity, title and
\* description are carried over.
ReplacePayload_Overwrite(existing, task_id, replacement) ==
    [ (replacement @@
       [ title |-> existing.title, description |-> existing.description,
         created |-> existing.created, updated |-> existing.updated ] @@
       [ id |-> task_id ]) EXCEPT !.id = task_id ]

\* The mapping replace_task validates.
ReplacePayload(existing, task_id, replacement) ==
    LET updated == [ (replacement @@ existing) EXCEPT !.id = task_id ]
        d1 == SetDefault(updated, "created", existing.created)
        d2 == SetDefault(d1, "prompts", existing.prompts)
        d3 == SetDefault(d2, "status_updates", existing.status_updates)
        d4 == SetDefault(d3, "deliverables", existing.deliverables)
    IN d4

\* TaskManager.replace_task(task_id, **replacement)
replace_task(task_id, replacement) ==
    LET loaded == load_task(files, task_id)
    IN IF loaded = None
       THEN Raises("replace_task", task_id, replacement, "not_found")
       ELSE LET payload == ReplacePayload(loaded[1], task_id, replacement)
            IN IF ~Validates(payload)
               THEN Raises("replace_task", task_id, replacement, "invalid")
               ELSE \E saved_at \in Later(clock) :
                      Saves("replace_task", task_id, replacement, BuildTask(payload),
                            saved_at, << >>,
                            Some(SavedTask(BuildTask(payload), saved_at)))

\* An update that forces the id only.
UpdatePayload_TakesCreated(existing, updates) ==
    [ (updates @@ existing) EXCEPT !.id = existing.id ]

\* The mapping update_task validates.
UpdatePayload(existing, updates) ==
    [ (updates @@ existing) EXCEPT !.id = existing.id, !.created = existing.created ]

\* TaskManager.update_task(task_id, **updates)
update_task(task_id, updates) ==
    LET loaded == load_task(files, task_id)
    IN IF loaded = None
       THEN Raises("update_task", task_id, updates, "not_found")
       ELSE LET payload == UpdatePayload(loaded[1], updates)
            IN IF ~Validates(payload)
               THEN Raises("update_task", task_id, updates, "invalid")
               ELSE \E saved_at \in Later(clock) :
                      Saves("update_task", task_id, updates, BuildTask(payload),
                            saved_at, << >>,
                            Some(SavedTask(BuildTask(payload), saved_at)))

\* TaskManager.delete_task(task_id)
manager_delete_task(task_id) ==
    /\ files' = delete_task(files, task_id)
    /\ ret' = Ret("delete_task", task_id, << >>, "ok", Some(task_id \in DOMAIN files))
    /\ fired' = << >>
    /\ UNCHANGED clock

\* add_progress_update that marks the task in progress.
WithProgress_MarksInProgress(task, now, author, summary, details) ==
    [ task EXCEPT !.status = IN_PROGRESS,
                  !.status_updates =
                      Append(@, StatusUpdate(now, author, IN_PROGRESS, summary, details)) ]

\* The task add_progress_update hands to save_task: the loaded task with one
\* more status update, which carries the task's status.
WithProgress(task, now, author, summary, details) ==
    [ task EXCEPT !.status_updates =
                      Append(@, StatusUpdate(now, author, task.status, summary, details)) ]

\* TaskManager.add_progress_update(task_id, author, summary, details)
add_progress_update(task_id, author, summary, details) ==
    LET args == [ author |-> author, summary |-> summary, details |-> details ]
    IN \E loaded \in { load_task(files, task_id) } :
       IF loaded = None
       THEN Raises("add_progress_update", task_id, args, "not_found")
       ELSE LET changed == WithProgress(loaded[1], clock, author, summary, details)
            IN \E saved_at \in Later(clock) :
                 Saves("add_progress_update", task_id, args, changed, saved_at, << >>,
                       Some(SavedTask(changed, saved_at)))

\* A search that settles for the first deliverable when the path is not found.
FirstWithPath_Fallback(deliverables, path) ==
    IF \E i \in 1..Len(deliverables) : deliverables[i].path = path
    THEN CHOOSE i \in 1..Len(deliverables) :
           /\ deliverables[i].path = path
           /\ \A j \in 1..(i - 1) : deliverables[j].path # path
    ELSE IF deliverables # << >> THEN 1 ELSE 0

\* A search that takes the last deliverable with the path.
FirstWithPath_LastMatch(deliverables, path) ==
    IF \E i \in 1..Len(deliverables) : deliverables[i].path = path
    THEN CHOOSE i \in 1..Len(deliverables) :
           /\ deliverables[i].path = path
           /\ \A j \in (i + 1)..Len(deliverables) : deliverables[j].path # path
    ELSE 0

\* The index of the first deliverable with the path, 0 when there is none.
FirstWithPath(deliverables, path) ==
    IF \E i \in 1..Len(deliverables) : deliverables[i].path = path
    THEN CHOOSE i \in 1..Len(deliverables) :
           /\ deliverables[i].path = path
           /\ \A j \in 1..(i - 1) : deliverables[j].path # path
    ELSE 0

\* TaskManager.mark_deliverable_complete(task_id, deliverable_path)
mark_deliverable_complete(task_id, deliverable_path) ==
    LET loaded == load_task(files, task_id)
        args == [ deliverable_path |-> deliverable_path ]
    IN IF loaded = None
       THEN Raises("mark_deliverable_complete", task_id, args, "not_found")
       ELSE LET task == loaded[1]
                found == FirstWithPath(task.deliverables, deliverable_path)
                changed == [ task EXCEPT !.deliverables[found].status = "completed" ]
            IN IF found = 0
               THEN Raises("mark_deliverable_complete", task_id, args,
                           "deliverable_not_found")
               ELSE \E saved_at \in Later(clock) :
                      Saves("mark_deliverable_complete", task_id, args, changed,
                            saved_at, << >>, Some(SavedTask(changed, saved_at)))

\* get_starter_prompt that answers with an empty prompt for a missing task.
get_starter_prompt_Unchecked(task_id) ==
    LET loaded == load_task(files, task_id)
    IN Returns("get_starter_prompt", task_id, << >>,
               Some(IF loaded = None THEN "" ELSE loaded[1].prompts.starter))

\* TaskManager.get_starter_prompt(task_id)
get_starter_prompt(task_id) ==
    LET loaded == load_task(files, task_id)
    IN IF loaded = None
       THEN Raises("get_starter_prompt", task_id, << >>, "not_found")
       ELSE Returns("get_starter_prompt", task_id, << >>, Some(loaded[1].prompts.starter))

\* TaskManager.add_followup_prompt(task_id, author, content, context)
add_followup_prompt(task_id, author, content, context) ==
    LET loaded == load_task(files, task_id)
        args == [ author |-> author, content |-> content, context |-> context ]
    IN IF loaded = None
       THEN Raises("add_followup_prompt", task_id, args, "not_found")
       ELSE LET task == loaded[1]
                prompt == Prompt(clock, author, content, context)
                changed == [ task EXCEPT !.prompts.followups = Append(@, prompt) ]
            IN \E saved_at \in Later(clock) :
                 Saves("add_followup_prompt", task_id, args, changed, saved_at, << >>,
                       Some(SavedTask(changed, saved_at)))

\* A comment list that takes the new comment in front.
WithComment_InFront(task, comment) ==
    [ task EXCEPT !.comments = << comment >> \o @ ]

\* task.comments.append(comment)
WithComment(task, comment) ==
    [ task EXCEPT !.comments = Append(@, comment) ]

\* TaskManager.add_comment(task_id, author, content, kind, reply_to), where
\* uuid is the identifier uuid4 gives.
add_comment(task_id, author, content, kind, reply_to, uuid) ==
    LET loaded == load_task(files, task_id)
        args == [ author |-> author, content |-> content, kind |-> kind,
                  reply_to |-> reply_to ]
    IN IF loaded = None
       THEN Raises("add_comment", task_id, args, "not_found")
       ELSE LET task == loaded[1]
                comment == Comment(uuid, task_id, author, content, clock, kind, reply_to)
                changed == WithComment(task, comment)
            IN \E saved_at \in Later(clock) :
                 Saves("add_comment", task_id, args, changed, saved_at,
                       IF webhook_manager
                       THEN << Event("task.comment_created", SavedTask(changed, saved_at),
                                     [ triggered_by |-> author, comment_id |-> uuid ]) >>
                       ELSE << >>,
                       Some(comment))

---------------------------------------------------------------------------
(* The webhook registry and dispatcher (storage.py, WebhookStorage;
   webhooks.py, WebhookManager) *)

\* Webhook(id, url, events, secret, active, created): a webhook as
\* create_webhook builds it, not yet triggered.
Webhook(id, url, events, secret, active, created) ==
    [ id |-> id, url |-> url, events |-> events, secret |-> secret,
      active |-> active, created |-> created, last_triggered |-> None ]

\* Webhook.record_trigger(), at clock reading now.
record_trigger(webhook, now) == [ webhook EXCEPT !.last_triggered = Some(now) ]

\* x in xs, for a list xs.
InList(x, xs) == \E i \in 1..Len(xs) : xs[i] = x

\* WebhookStorage.list_webhooks: every entry of the file that validates.
list_webhooks(registry) == registry

\* WebhookStorage.save_webhook(webhook): the list it writes, given the list
\* _read_webhooks returned.
save_webhook(registry, webhook) ==
    Append(SelectSeq(registry, LAMBDA w : w.id # webhook.id), webhook)

\* WebhookStorage.delete_webhook(webhook_id): the list it leaves.
delete_webhook(registry, webhook_id) ==
    SelectSeq(registry, LAMBDA w : w.id # webhook_id)

\* A selection that takes every active webhook, whatever it subscribed to.
Matching_AnyActive(registry, event) ==
    SelectSeq(list_webhooks(registry), LAMBDA hook : hook.active)

\* fire_event: the webhooks the event goes to.
Matching(registry, event) ==
    SelectSeq(list_webhooks(registry),
              LAMBDA hook : hook.active /\ InList(event, hook.events))

\* WebhookManager._build_payload, at clock reading now: the keys of metadata
\* are written over event, timestamp and task (payload.update(metadata)).
BuildPayload(event, task, metadata, now) ==
    metadata @@ [ event |-> event, timestamp |-> now, task |-> task ]

\* One _dispatch coroutine handed to _schedule: the webhook object it holds,
\* its payload, how far it has come, the number of POSTs it has made, and the
\* list save_webhook has read.
Dispatch(webhook, payload) ==
    [ webhook |-> webhook, payload |-> payload, state |-> "scheduled",
      attempts |-> 0, read |-> << >> ]

\* WebhookManager.fire_event(event, task, metadata), at clock reading now:
\* the coroutines it schedules, in order.
fire_event(registry, event, task, metadata, now) ==
    LET hooks == Matching(registry, event)
    IN [ i \in 1..Len(hooks) |->
           Dispatch(hooks[i], BuildPayload(event, task, metadata, now)) ]

\* The coroutines scheduled by a list of fire_event calls.
RECURSIVE FireEvents(_, _, _)
FireEvents(registry, events, now) ==
    IF events = << >> THEN << >>
    ELSE fire_event(registry, Head(events).event, Head(events).task,
                    Head(events).metadata, now)
         \o FireEvents(registry, Tail(events), now)

\* A failed delivery that puts the coroutine back to be run again.
AfterFailure_Requeued(dispatch) ==
    [ dispatch EXCEPT !.attempts = @ + 1 ]

\* _dispatch when the POST raises or the response is an error: the failure
\* is logged and the coroutine returns.
AfterFailure(dispatch) ==
    [ dispatch EXCEPT !.state = "failed", !.attempts = @ + 1 ]

---------------------------------------------------------------------------
(* Inputs *)

Task001 == TaskPrefix \o << "0", "0", "1" >>

Task002 == TaskPrefix \o << "0", "0", "2" >>

Notes == << "n", "o", "t", "e", "s" >>

\* The identifiers callers pass to get_task, add_comment and the update_status
\* of the pick-up workflow: the first generated id and the next one.
CallerIds == { Task001, Task002 }

\* The identifier callers pass to the other operations: missing from an empty
\* store and after a delete, stored otherwise.
TargetIds == { Task001 }

\* A deliverables payload.
OneDeliverable == << [ path |-> "docs/output.md", status |-> "in_progress" ] >>

\* The priority and the keyword arguments callers pass to create_task.
CreateInputs ==
    { << "critical", [ status |-> READY ] >>,
      << "high", [ status |-> READY ] >>,
      << "critical", [ status |-> PLANNED ] >>,
      << "low", [ deliverables |-> OneDeliverable ] >> }

\* The calls of create_task: the id left to the generator with each payload,
\* and one call with an explicit id.
CreateCalls ==
    { << None, input[1], input[2] >> : input \in CreateInputs }
        \union { << Task001, "high", [ status |-> READY ] >> }

\* The statuses callers pass to update_status.
CallerStatuses == { READY, IN_PROGRESS, COMPLETED }

\* The payloads callers pass to replace_task.
ReplaceInputs ==
    { [ title |-> "Updated" ],
      [ title |-> "Updated", priority |-> "high", status |-> PLANNED,
        status_updates |-> << >> ] }

\* The payloads callers pass to update_task.
UpdateInputs == { [ priority |-> "high" ], [ status |-> READY ] }

\* The callers that run update_status at the same time.
Callers == { "codex", "claude" }

\* A caller outside update_status.
Idle == [ pc |-> "idle" ]

\* The identifiers uuid4 gives to comments.
Uuids == << "c_1f0e", "c_9a3b", "c_47d2", "c_e0b7" >>

\* The comment identifiers on the stored tasks.
UsedUuids(fs) ==
    UNION { { load_task(fs, id)[1].comments[i].id :
                i \in 1..Len(load_task(fs, id)[1].comments) } :
              id \in { stem \in DOMAIN fs : load_task(fs, stem) # None } }

\* What uuid4 can give next: a value it has not given to a stored comment.
\* Which of the unused values it is makes no difference to the operations,
\* and the model takes the first.
FreshUuids(fs) ==
    { Uuids[i] : i \in { i \in 1..Len(Uuids) :
                            /\ Uuids[i] \notin UsedUuids(fs)
                            /\ \A j \in 1..(i - 1) : Uuids[j] \in UsedUuids(fs) } }

---------------------------------------------------------------------------
(* Specification *)

Init ==
    /\ files = << >>
    /\ clock = 0
    /\ webhook_manager = TRUE
    /\ fired = << >>
    /\ ret = Ret("init", None, << >>, "ok", None)
    /\ ops = 0
    /\ calls = [ caller \in Callers |-> Idle ]
    /\ webhooks = << >>
    /\ dispatches = << >>

\* Time passes between two operations.
Tick ==
    /\ clock < MaxClock
    /\ clock' = clock + 1
    /\ UNCHANGED << files, webhook_manager, fired, ret, ops, calls, webhooks, dispatches >>

\* One operation of a run of at most limit operations.
Operation(limit) ==
    /\ ops < limit
    /\ ops' = ops + 1
    /\ UNCHANGED << webhook_manager, calls, webhooks, dispatches >>

CreateTask ==
    /\ Operation(MaxOps)
    /\ \E call \in CreateCalls :
         create_task(call[1], "Title", "Description", call[2], call[3])

GetTask ==
    /\ Operation(MaxOps)
    /\ \E id \in CallerIds : get_task(id)

ListTasksOp ==
    /\ Operation(MaxOps)
    /\ \E status \in { None, Some(READY) }, priority \in { None, Some("critical") } :
         Returns("list_tasks", None, [ status |-> status, priority |-> priority ],
                 ListTasks(files, status, priority))

ReplaceTask ==
    /\ Operation(MaxOps)
    /\ \E id \in TargetIds, replacement \in ReplaceInputs : replace_task(id, replacement)

UpdateTask ==
    /\ Operation(MaxOps)
    /\ \E id \in TargetIds, updates \in UpdateInputs : update_task(id, updates)

DeleteTask ==
    /\ Operation(MaxOps)
    /\ \E id \in TargetIds : manager_delete_task(id)

ArchiveTask ==
    /\ Operation(MaxOps)
    /\ \E id \in TargetIds, author \in { None, Some("jeff") } : archive_task(id, author)

UpdateStatus ==
    /\ Operation(MaxOps)
    /\ \E id \in CallerIds, status \in CallerStatuses :
         update_status(id, status, "codex", "Started", None)

GetNextTask ==
    /\ Operation(MaxOps)
    /\ \E priority \in { None, Some("critical"), Some("high") } : get_next_task(priority)

AddProgressUpdate ==
    /\ Operation(MaxOps)
    /\ \E id \in TargetIds :
         add_progress_update(id, "claude", "Halfway", Some("Added first section"))

MarkDeliverableComplete ==
    /\ Operation(MaxOps)
    /\ \E id \in TargetIds, path \in { "docs/output.md", "missing.md" } :
         mark_deliverable_complete(id, path)

GetStarterPrompt ==
    /\ Operation(MaxOps)
    /\ \E id \in TargetIds : get_starter_prompt(id)

AddFollowupPrompt ==
    /\ Operation(MaxOps)
    /\ \E id \in TargetIds : add_followup_prompt(id, "codex", "Continue", None)

AddComment ==
    /\ Operation(MaxOps)
    /\ \E id \in CallerIds, uuid \in FreshUuids(files) :
         add_comment(id, "jeff", "Looks good", "comment", None, uuid)

Next ==
    \/ Tick
    \/ CreateTask
    \/ GetTask
    \/ ListTasksOp
    \/ ReplaceTask
    \/ UpdateTask
    \/ DeleteTask
    \/ ArchiveTask
    \/ UpdateStatus
    \/ GetNextTask
    \/ AddProgressUpdate
    \/ MarkDeliverableComplete
    \/ GetStarterPrompt
    \/ AddFollowupPrompt
    \/ AddComment

Spec == Init /\ [][Next]_vars

---------------------------------------------------------------------------
(* update_status by callers that run at the same time: the call up to its
   save_task, then save_task and the rest *)

\* update_status from its start to the append on the loaded task
\* (manager.py, lines 154-165).
update_status_load(caller, task_id, status, author, summary, details) ==
    LET loaded == load_task(files, task_id)
        args == [ status |-> status, author |-> author, summary |-> summary,
                  details |-> details ]
    IN /\ calls[caller].pc = "idle"
       /\ ops < MaxOps
       /\ ops' = ops + 1
       /\ calls' = [ calls EXCEPT ![caller] =
                       IF loaded = None
                       THEN [ pc |-> "done", id |-> task_id, args |-> args,
                              outcome |-> "not_found" ]
                       ELSE [ pc |-> "loaded", id |-> task_id, args |-> args,
                              seen |-> loaded[1],
                              task |-> WithStatus(loaded[1], clock, status, author,
                                                  summary, details) ] ]
       /\ UNCHANGED << files, clock, webhook_manager, fired, ret, webhooks, dispatches >>

\* A save that first reads the record again and redoes the change on it.
TaskToSave_Reloaded(call, fs) ==
    WithStatus(load_task(fs, call.id)[1], Last(call.task.status_updates).timestamp,
               call.args.status, call.args.author, call.args.summary,
               call.args.details)

\* The task update_status hands to save_task: the object it loaded and
\* changed, whatever the file holds by now.
TaskToSave(call, fs) == call.task

\* update_status from save_task to its return (manager.py, lines 166-181).
update_status_save(caller) ==
    LET call == calls[caller]
        saved == SavedTask(TaskToSave(call, files), clock)
    IN /\ call.pc = "loaded"
       /\ files' = save_task(files, TaskToSave(call, files), clock)
       /\ fired' = IF webhook_manager
                   THEN StatusEvents(saved, call.args.status, call.args.author,
                                     call.seen.status)
                   ELSE << >>
       /\ ret' = Ret("update_status", call.id, call.args, "ok", Some(saved))
       /\ calls' = [ calls EXCEPT ![caller] =
                       [ pc |-> "done", id |-> call.id, args |-> call.args,
                         outcome |-> "ok", seen |-> call.seen, task |-> saved,
                         turn |-> Cardinality({ c \in Callers : calls[c].pc = "done" }) ] ]
       /\ UNCHANGED << clock, webhook_manager, ops, webhooks, dispatches >>

BeginUpdateStatus ==
    \E caller \in Callers, status \in { IN_PROGRESS, COMPLETED } :
        update_status_load(caller, Task001, status, caller, "Started", None)

FinishUpdateStatus ==
    \E caller \in Callers : update_status_save(caller)

NextConcurrent ==
    \/ Tick
    \/ CreateTask
    \/ BeginUpdateStatus
    \/ FinishUpdateStatus

SpecConcurrent == Init /\ [][NextConcurrent]_vars

\* The runs that exercise every status: update_status with each of the nine.
UpdateAnyStatus ==
    /\ Operation(MaxOps)
    /\ \E id \in TargetIds, status \in TaskStatus :
         update_status(id, status, "codex", "Started", None)

NextStatus ==
    \/ Tick
    \/ CreateTask
    \/ UpdateAnyStatus
    \/ GetTask

SpecStatus == Init /\ [][NextStatus]_vars

---------------------------------------------------------------------------
(* replace_task and update_task with payloads over every carried field *)

\* The value a payload gives to a field, when it carries the field.
PayloadValues ==
    [ priority |-> "high",
      deliverables |-> << [ path |-> "docs/new.md", status |-> "pending" ] >>,
      prompts |-> Prompts("Start here", << >>),
      status_updates |-> << StatusUpdate(0, "jeff", COMPLETED, "Imported", None) >> ]

\* The payloads of replace_task: no field, each of those fields alone, all
\* of them, and payloads that carry an id or a created timestamp of their own.
ReplacementPayloads ==
    { [ field \in fields |-> PayloadValues[field] ] :
        fields \in { {}, DOMAIN PayloadValues }
                      \union { { field } : field \in DOMAIN PayloadValues } }
        \union { [ id |-> Task002, title |-> "Updated" ],
                 [ created |-> 1, title |-> "Updated" ] }

\* The payloads of update_task.
UpdatePayloads ==
    { [ status |-> IN_PROGRESS ],
      [ priority |-> "high", deliverables |-> PayloadValues.deliverables ],
      [ id |-> Task002, created |-> 1, status |-> READY ] }

ReplaceAny ==
    /\ Operation(MaxOps)
    /\ \E id \in TargetIds, replacement \in ReplacementPayloads :
         replace_task(id, replacement)

UpdateAny ==
    /\ Operation(MaxOps)
    /\ \E id \in TargetIds, updates \in UpdatePayloads : update_task(id, updates)

NextReplace ==
    \/ Tick
    \/ CreateTask
    \/ AddProgressUpdate
    \/ ReplaceAny
    \/ UpdateAny

SpecReplace == Init /\ [][NextReplace]_vars

---------------------------------------------------------------------------
(* Calls that carry values outside the closed sets *)

\* A deliverables payload whose status is not a deliverable status.
BadDeliverables == << [ path |-> "docs/output.md", status |-> "done" ] >>

\* The calls of create_task: one valid, and one for each way of being invalid.
CheckedCreates ==
    { << "medium", << >> >>,
      << "urgent", << >> >>,
      << "medium", [ status |-> "bogus" ] >>,
      << "medium", [ deliverables |-> BadDeliverables ] >> }

\* The payloads of replace_task and update_task: one valid, the others each
\* with one value outside its closed set.
CheckedPayloads ==
    { [ priority |-> "high" ],
      [ priority |-> "urgent" ],
      [ status |-> "bogus" ],
      [ deliverables |-> BadDeliverables ],
      [ status_updates |-> << StatusUpdate(0, "jeff", "bogus", "Imported", None) >> ] }

CreateChecked ==
    /\ Operation(MaxOps)
    /\ \E call \in CheckedCreates :
         create_task(None, "Title", "Description", call[1], call[2])

ReplaceChecked ==
    /\ Operation(MaxOps)
    /\ \E id \in TargetIds, replacement \in CheckedPayloads : replace_task(id, replacement)

UpdateChecked ==
    /\ Operation(MaxOps)
    /\ \E id \in TargetIds, updates \in CheckedPayloads : update_task(id, updates)

UpdateStatusChecked ==
    /\ Operation(MaxOps)
    /\ \E id \in TargetIds, status \in { IN_PROGRESS, "bogus" } :
         update_status(id, status, "codex", "Started", None)

NextChecked ==
    \/ Tick
    \/ CreateChecked
    \/ ReplaceChecked
    \/ UpdateChecked
    \/ UpdateStatusChecked

SpecChecked == Init /\ [][NextChecked]_vars

---------------------------------------------------------------------------
(* The id generator over tasks directories that exist before the run *)

\* The stem task-NNN of a task number.
NumberedStem(n) == TaskPrefix \o Format03d(n)

\* Stems outside the numbering: notes, task-notes, task- and the unpadded
\* task-9.
OtherStems ==
    { Notes, TaskPrefix \o Notes, TaskPrefix, TaskPrefix \o << "9" >> }

\* A YAML file that is not a task.
UnrelatedFile == [ title |-> "Notes" ]

\* The file save_task wrote for a task created at the first clock reading.
SeededFile(stem) ==
    ModelDumpJson(SavedTask(BuildTask([ id |-> stem, title |-> "Title",
                                        description |-> "Description",
                                        created |-> 0, updated |-> 0 ]), 0))

\* The directories: task-001 to task-n with at most one of them removed, and
\* any of the other stems.
SeededStores ==
    { [ stem \in (numbered \ gap) \union others |->
          IF stem \in OtherStems THEN UnrelatedFile ELSE SeededFile(stem) ] :
        numbered \in { { NumberedStem(i) : i \in 1..n } : n \in 0..MaxSeeded },
        gap \in { {} } \union { { NumberedStem(i) } : i \in 1..MaxSeeded },
        others \in SUBSET OtherStems }

InitSeeded ==
    /\ files \in SeededStores
    /\ clock = 0
    /\ webhook_manager = TRUE
    /\ fired = << >>
    /\ ret = Ret("init", None, << >>, "ok", None)
    /\ ops = 0
    /\ calls = [ caller \in Callers |-> Idle ]
    /\ webhooks = << >>
    /\ dispatches = << >>

GenerateTaskId ==
    /\ Operation(MaxOps)
    /\ Returns("generate_task_id", None, << >>, Some(generate_task_id(files)))

CreateGenerated ==
    /\ Operation(MaxOps)
    /\ create_task(None, "Title", "Description", "medium", << >>)

NextSeeded ==
    \/ GenerateTaskId
    \/ CreateGenerated
    \/ DeleteTask

SpecSeeded == InitSeeded /\ [][NextSeeded]_vars

\* The store driven directly: TaskStorage.save_task on tasks built by the
\* caller, as tests/test_storage.py does with _build_task, and load_task.

\* The status histories of those tasks: none, one entry without details, and
\* an entry without details followed by one with details.
StoredHistories ==
    { << >>,
      << StatusUpdate(0, "jeff", PLANNED, "Planned", None) >>,
      << StatusUpdate(0, "jeff", PLANNED, "Planned", None),
         StatusUpdate(0, "codex", IN_PROGRESS, "Added first section",
                      Some("Progress details")) >> }

\* Their follow-up prompts: none, one without context, one with context.
StoredFollowups ==
    { << >>,
      << Prompt(0, "codex", "Continue", None) >>,
      << Prompt(0, "jeff", "Continue", Some("After review")) >> }

\* A task built by its caller (Task(...), as _build_task does): one with no
\* history leaves status, priority and the collections to the defaults of the
\* model (planned, medium, empty); one with a history carries the status of
\* its last entry, a priority and a deliverable.
StoredTask(id, updated, history, followups) ==
    BuildTask(
      [ id |-> id, title |-> "Sample Task", description |-> "Task for storage tests.",
        created |-> 0, updated |-> updated,
        prompts |-> Prompts("Task for storage tests.", followups) ]
      @@ IF history = << >>
         THEN << >>
         ELSE [ status |-> Last(history).status, priority |-> "high",
                status_updates |-> history, deliverables |-> OneDeliverable ])

\* The valid tasks handed to save_task.
ValidTasks ==
    { StoredTask(Task001, 0, history, followups) :
        history \in StoredHistories, followups \in StoredFollowups }
      \union { StoredTask(Task002, MaxClock, << >>, << >>) }

\* TaskStorage.save_task(task) called on its own; it returns the task it
\* was given, with updated set.
SaveTask ==
    /\ Operation(MaxOps)
    /\ \E task \in ValidTasks, saved_at \in Later(clock) :
         Saves("save_task", task.id, [ task |-> task ], task, saved_at, << >>,
               Some(SavedTask(task, saved_at)))

NextStored ==
    \/ Tick
    \/ SaveTask
    \/ GetTask
    \/ DeleteTask

SpecStored == Init /\ [][NextStored]_vars

\* A tasks directory that holds files save_task did not write
\* (tests/test_storage.py, test_load_task_with_invalid_yaml).

\* A YAML file without the required fields of a Task.
InvalidFile == [ id |-> "missing-fields" ]

\* The stems of that directory, in file name order notes, task-001, task-002.
CorruptStems == { Notes, Task001, Task002 }

\* What a file of the directory may hold: a saved task, malformed YAML,
\* nothing, a document that fails validation, or bytes that do not decode.
FileContents(stem) ==
    { SeededFile(stem), Unparseable, EmptyFile, InvalidFile, Undecodable }

\* The directories: any of the stems, each with any of those contents.
CorruptStores ==
    { fs \in UNION { [ stems -> UNION { FileContents(stem) : stem \in stems } ] :
                       stems \in SUBSET CorruptStems } :
        \A stem \in DOMAIN fs : fs[stem] \in FileContents(stem) }

InitCorrupt ==
    /\ files \in CorruptStores
    /\ clock = 0
    /\ webhook_manager = TRUE
    /\ fired = << >>
    /\ ret = Ret("init", None, << >>, "ok", None)
    /\ ops = 0
    /\ calls = [ caller \in Callers |-> Idle ]
    /\ webhooks = << >>
    /\ dispatches = << >>

\* TaskStorage.load_task(task_id) called on its own.
LoadTask ==
    /\ Operation(MaxOps)
    /\ \E task_id \in CorruptStems :
         IF load_task_raises(files, task_id)
         THEN Raises("load_task", task_id, << >>, "raised")
         ELSE Returns("load_task", task_id, << >>, load_task(files, task_id))

\* TaskStorage.list_tasks() called on its own.
ListStored ==
    /\ Operation(MaxOps)
    /\ IF list_tasks_raises(files)
       THEN Raises("list_tasks", None, << >>, "raised")
       ELSE Returns("list_tasks", None, << >>, list_tasks(files))

NextCorrupt ==
    \/ LoadTask
    \/ ListStored
    \/ DeleteTask

SpecCorrupt == InitCorrupt /\ [][NextCorrupt]_vars

\* A store of tasks that differ in status and priority
\* (tests/test_manager.py, test_list_tasks_filters_by_status_and_priority).

ListedStems == { NumberedStem(n) : n \in 1..3 }

\* The file save_task wrote for a task of the given status and priority.
ListedFile(stem, status, priority) ==
    ModelDumpJson(SavedTask(BuildTask([ id |-> stem, title |-> "Title",
                                        description |-> "Description",
                                        created |-> 0, updated |-> 0,
                                        status |-> status,
                                        priority |-> priority ]), 0))

ListedFiles(stem) ==
    { ListedFile(stem, status, priority) :
        status \in { PLANNED, IN_PROGRESS }, priority \in { "medium", "high" } }

\* The stores: any of the stems, each a task of either status and priority.
ListedStores ==
    { fs \in UNION { [ stems -> UNION { ListedFiles(stem) : stem \in stems } ] :
                       stems \in SUBSET ListedStems } :
        \A stem \in DOMAIN fs : fs[stem] \in ListedFiles(stem) }

\* The filters callers pass to list_tasks.
StatusFilters == { None, Some(PLANNED), Some(IN_PROGRESS), Some(COMPLETED) }

ListPriorityFilters == { None, Some("medium"), Some("high") }

InitListed ==
    /\ files \in ListedStores
    /\ clock = 0
    /\ webhook_manager = TRUE
    /\ fired = << >>
    /\ ret = Ret("init", None, << >>, "ok", None)
    /\ ops = 0
    /\ calls = [ caller \in Callers |-> Idle ]
    /\ webhooks = << >>
    /\ dispatches = << >>

ListFiltered ==
    /\ Operation(MaxOps)
    /\ \E status \in StatusFilters, priority \in ListPriorityFilters :
         Returns("list_tasks", None, [ status |-> status, priority |-> priority ],
                 ListTasks(files, status, priority))

NextListed ==
    \/ ListFiltered
    \/ DeleteTask

SpecListed == InitListed /\ [][NextListed]_vars

---------------------------------------------------------------------------
(* A TaskManager with registered webhooks: the operations that fire events
   and the deliveries that follow *)

StatusChanged == "task.status_changed"

TaskCompleted == "task.completed"

CommentCreated == "task.comment_created"

\* Registered webhooks: one for status changes, one for every event the
\* manager fires, one for those events that is not active, and one for an
\* event the manager does not fire.
HookStatus ==
    Webhook("wh_1", "http://localhost:5000/webhook1", << StatusChanged >>,
            "secret1", TRUE, 0)

HookAll ==
    Webhook("wh_2", "http://localhost:5000/webhook2",
            << StatusChanged, TaskCompleted, CommentCreated >>, "secret2", TRUE, 0)

HookInactive ==
    Webhook("wh_3", "http://localhost:5000/webhook3",
            << StatusChanged, TaskCompleted, CommentCreated >>, "secret3", FALSE, 0)

HookCreated ==
    Webhook("wh_4", "http://localhost:5000/webhook4", << "task.created" >>,
            "secret4", TRUE, 0)

\* The webhooks files the runs start from.
Registries ==
    { << >>,
      << HookInactive, HookCreated >>,
      << HookStatus, HookInactive, HookAll >>,
      << HookAll, HookCreated >> }

InitHooks ==
    /\ files = (Task001 :> SeededFile(Task001))
    /\ clock = 0
    /\ webhook_manager = TRUE
    /\ fired = << >>
    /\ ret = Ret("init", None, << >>, "ok", None)
    /\ ops = 0
    /\ calls = [ caller \in Callers |-> Idle ]
    /\ webhooks \in Registries
    /\ dispatches = << >>

\* One operation of a TaskManager whose fire_event calls reach the
\* registry: each call schedules its coroutines.
FiringOperation(limit) ==
    /\ ops < limit
    /\ ops' = ops + 1
    /\ UNCHANGED << webhook_manager, calls, webhooks >>

Schedules ==
    /\ Len(dispatches) + Len(FireEvents(webhooks, fired', clock')) <= MaxDispatches
    /\ dispatches' = dispatches \o FireEvents(webhooks, fired', clock')

UpdateStatusFired ==
    /\ FiringOperation(MaxOps)
    /\ \E id \in CallerIds, status \in { IN_PROGRESS, COMPLETED } :
         update_status(id, status, "codex", "Started", None)
    /\ Schedules

AddCommentFired ==
    /\ FiringOperation(MaxOps)
    /\ \E id \in CallerIds, uuid \in FreshUuids(files) :
         add_comment(id, "jeff", "Looks good", "comment", None, uuid)
    /\ Schedules

\* WebhookManager.delete_webhook(webhook_id)
DeleteWebhook ==
    /\ ops < MaxOps
    /\ ops' = ops + 1
    /\ \E webhook_id \in { HookAll.id } :
         /\ webhooks' = delete_webhook(webhooks, webhook_id)
         /\ ret' = Ret("delete_webhook", Some(webhook_id), << >>, "ok",
                       Some(Len(delete_webhook(webhooks, webhook_id)) < Len(webhooks)))
    /\ fired' = << >>
    /\ UNCHANGED << files, clock, webhook_manager, calls, dispatches >>

\* The POST of a scheduled coroutine raises, times out or is answered with
\* an error status.
DispatchFails ==
    /\ \E i \in 1..Len(dispatches) :
         /\ dispatches[i].state = "scheduled"
         /\ dispatches' = [ dispatches EXCEPT ![i] = AfterFailure(@) ]
    /\ UNCHANGED << files, clock, webhook_manager, fired, ret, ops, calls, webhooks >>

\* The POST of a scheduled coroutine is answered with success: the webhook
\* object records the trigger.
Triggered(dispatch, now) ==
    [ dispatch EXCEPT !.attempts = @ + 1, !.webhook = record_trigger(@, now) ]

\* A successful delivery on the running event loop (loop.create_task):
\* record_trigger and save_webhook run with no other coroutine in between.
DispatchSucceeds ==
    /\ \E i \in 1..Len(dispatches) :
         /\ dispatches[i].state = "scheduled"
         /\ dispatches' = [ dispatches EXCEPT ![i] =
                              [ Triggered(@, clock) EXCEPT !.state = "delivered" ] ]
         /\ webhooks' = save_webhook(webhooks, record_trigger(dispatches[i].webhook, clock))
    /\ UNCHANGED << files, clock, webhook_manager, fired, ret, ops, calls >>

NextHooks ==
    \/ UpdateStatusFired
    \/ AddCommentFired
    \/ DeleteWebhook
    \/ DispatchFails
    \/ DispatchSucceeds

SpecHooks == InitHooks /\ [][NextHooks]_vars

\* Deliveries with no running event loop: _schedule starts one thread per
\* coroutine, and save_webhook of one thread can run between the read and the
\* write of save_webhook of another.

\* A successful delivery up to the read of save_webhook.
DispatchResponds ==
    /\ \E i \in 1..Len(dispatches) :
         /\ dispatches[i].state = "scheduled"
         /\ dispatches' = [ dispatches EXCEPT ![i] =
                              [ Triggered(@, clock) EXCEPT !.state = "saving",
                                                           !.read = webhooks ] ]
    /\ UNCHANGED << files, clock, webhook_manager, fired, ret, ops, calls, webhooks >>

\* save_webhook from its write on.
SaveWebhookWrites ==
    /\ \E i \in 1..Len(dispatches) :
         /\ dispatches[i].state = "saving"
         /\ dispatches' = [ dispatches EXCEPT ![i].state = "delivered" ]
         /\ webhooks' = save_webhook(dispatches[i].read, dispatches[i].webhook)
    /\ UNCHANGED << files, clock, webhook_manager, fired, ret, ops, calls >>

NextHookThreads ==
    \/ UpdateStatusFired
    \/ DispatchFails
    \/ DispatchResponds
    \/ SaveWebhookWrites

SpecHookThreads == InitHooks /\ [][NextHookThreads]_vars

\* The registry with webhooks registered and deleted while deliveries are
\* under way, with and without a running event loop.

\* The values uuid4 gives to the ids of new webhooks: a value it has not
\* given before. The model takes the value at the number of the operation.
NewHookIds == << "wh_5", "wh_6", "wh_7", "wh_8", "wh_9" >>

\* WebhookStorage.get_webhook(webhook_id): the first entry with the id that
\* the file holds, or None.
get_webhook(registry, webhook_id) ==
    IF \E i \in 1..Len(registry) : registry[i].id = webhook_id
    THEN Some(registry[CHOOSE i \in 1..Len(registry) :
                         /\ registry[i].id = webhook_id
                         /\ \A j \in 1..(i - 1) : registry[j].id # webhook_id])
    ELSE None

\* WebhookStorage.create_webhook(url, events, secret, active), at clock
\* reading now and with id from uuid4: the webhook it builds and returns.
create_webhook(id, url, events, secret, active, now) ==
    Webhook(id, url, events, secret, active, now)

\* WebhookManager.create_webhook(url, events, secret): the webhook is built
\* and handed to save_webhook.
CreateWebhook ==
    /\ ops < MaxOps
    /\ ops' = ops + 1
    /\ \E events \in { << StatusChanged >>, << CommentCreated >> } :
         LET webhook == create_webhook(NewHookIds[ops + 1],
                                       "http://localhost:5000/webhook", events,
                                       "secret", TRUE, clock)
         IN /\ webhooks' = save_webhook(webhooks, webhook)
            /\ ret' = Ret("create_webhook", Some(webhook.id),
                          [ events |-> events ], "ok", Some(webhook))
    /\ fired' = << >>
    /\ UNCHANGED << files, clock, webhook_manager, calls, dispatches >>

\* Deliveries on threads of their own (no running event loop), next to the
\* caller's thread that registers and deletes webhooks.
NextRegistry ==
    \/ UpdateStatusFired
    \/ CreateWebhook
    \/ DeleteWebhook
    \/ DispatchFails
    \/ DispatchResponds
    \/ SaveWebhookWrites

SpecRegistry == InitHooks /\ [][NextRegistry]_vars

\* The same calls with the deliveries on the running event loop.
NextRegistryLoop ==
    \/ UpdateStatusFired
    \/ CreateWebhook
    \/ DeleteWebhook
    \/ DispatchFails
    \/ DispatchSucceeds

SpecRegistryLoop == InitHooks /\ [][NextRegistryLoop]_vars

---------------------------------------------------------------------------
(* save_task of a stored task while other callers read: Path.write_text
   opens the file for writing, which empties it, and then writes the text *)

\* The records stored before the run: two ready tasks.
InitOverwrite ==
    /\ files = (Task001 :> ListedFile(Task001, READY, "high"))
               @@ (Task002 :> ListedFile(Task002, READY, "medium"))
    /\ clock = 0
    /\ webhook_manager = TRUE
    /\ fired = << >>
    /\ ret = Ret("init", None, << >>, "ok", None)
    /\ ops = 0
    /\ calls = [ caller \in Callers |-> Idle ]
    /\ webhooks = << >>
    /\ dispatches = << >>

\* save_task(task) of a stored task up to open(path, "w"): the time is read,
\* the document is built and the file is opened, which leaves it empty.
save_task_opens(caller, task) ==
    /\ calls[caller].pc = "idle"
    /\ load_task(files, task.id) # None
    /\ ops < MaxOps
    /\ ops' = ops + 1
    /\ \E saved_at \in Later(clock) :
         /\ clock' = saved_at
         /\ calls' = [ calls EXCEPT ![caller] =
                         [ pc |-> "writing", id |-> task.id,
                           previous |-> files[task.id],
                           document |-> ModelDumpJson(SavedTask(task, saved_at)) ] ]
    /\ files' = [ files EXCEPT ![task.id] = EmptyFile ]
    /\ UNCHANGED << webhook_manager, fired, ret, webhooks, dispatches >>

\* save_task from the write of the text to its return.
save_task_writes(caller) ==
    /\ calls[caller].pc = "writing"
    /\ files' = [ files EXCEPT ![calls[caller].id] = calls[caller].document ]
    /\ calls' = [ calls EXCEPT ![caller] = Idle ]
    /\ UNCHANGED << clock, webhook_manager, fired, ret, ops, webhooks, dispatches >>

BeginSave ==
    \E caller \in Callers, task \in ValidTasks : save_task_opens(caller, task)

FinishSave ==
    \E caller \in Callers : save_task_writes(caller)

NextOverwrite ==
    \/ BeginSave
    \/ FinishSave
    \/ GetTask
    \/ ListTasksOp
    \/ GetNextTask

SpecOverwrite == InitOverwrite /\ [][NextOverwrite]_vars

---------------------------------------------------------------------------
(* The mutating operations, with create, update and replace payloads that
   carry an updated timestamp of their own *)

\* The updated timestamps callers supply: one before every reading of the
\* clock and one after every reading.
SuppliedUpdated == { -1, MaxClock + 1 }

CreateStamped ==
    /\ Operation(MaxOps)
    /\ \E updated \in SuppliedUpdated :
         create_task(None, "Title", "Description", "high",
                     [ status |-> READY, updated |-> updated ])

ReplaceStamped ==
    /\ Operation(MaxOps)
    /\ \E id \in TargetIds, updated \in SuppliedUpdated :
         replace_task(id, [ title |-> "Updated", updated |-> updated ])

UpdateStamped ==
    /\ Operation(MaxOps)
    /\ \E id \in TargetIds, updated \in SuppliedUpdated :
         update_task(id, [ priority |-> "high", updated |-> updated ])

NextStamped ==
    \/ Tick
    \/ CreateStamped
    \/ ReplaceStamped
    \/ UpdateStamped
    \/ DeleteTask
    \/ ArchiveTask
    \/ UpdateStatus
    \/ AddProgressUpdate
    \/ MarkDeliverableComplete
    \/ AddFollowupPrompt
    \/ AddComment

SpecStamped == Init /\ [][NextStamped]_vars

---------------------------------------------------------------------------
(* update_status, archive_task and add_progress_update by callers that run
   at the same time on one task *)

\* add_progress_update from its start to the append on the loaded task
\* (manager.py, lines 211-219).
add_progress_update_load(caller, task_id, author, summary, details) ==
    LET loaded == load_task(files, task_id)
        args == [ author |-> author, summary |-> summary, details |-> details ]
    IN /\ calls[caller].pc = "idle"
       /\ ops < MaxOps
       /\ ops' = ops + 1
       /\ calls' = [ calls EXCEPT ![caller] =
                       IF loaded = None
                       THEN [ pc |-> "done", id |-> task_id, args |-> args,
                              outcome |-> "not_found" ]
                       ELSE [ pc |-> "appended", id |-> task_id, args |-> args,
                              seen |-> loaded[1],
                              task |-> WithProgress(loaded[1], clock, author, summary,
                                                    details) ] ]
       /\ UNCHANGED << files, clock, webhook_manager, fired, ret, webhooks, dispatches >>

\* add_progress_update from save_task to its return (manager.py, line 220).
add_progress_update_save(caller) ==
    LET call == calls[caller]
        saved == SavedTask(call.task, clock)
    IN /\ call.pc = "appended"
       /\ files' = save_task(files, call.task, clock)
       /\ fired' = << >>
       /\ ret' = Ret("add_progress_update", call.id, call.args, "ok", Some(saved))
       /\ calls' = [ calls EXCEPT ![caller] =
                       [ pc |-> "done", id |-> call.id, args |-> call.args,
                         outcome |-> "ok", seen |-> call.seen, task |-> saved ] ]
       /\ UNCHANGED << clock, webhook_manager, ops, webhooks, dispatches >>

\* A caller whose call has returned starts another.
CallAgain ==
    \E caller \in Callers :
        /\ calls[caller].pc = "done"
        /\ calls' = [ calls EXCEPT ![caller] = Idle ]
        /\ UNCHANGED << files, clock, webhook_manager, fired, ret, ops, webhooks,
                        dispatches >>

\* archive_task up to the save_task of the update_status it calls: the
\* record is there for _ensure_task_exists and is loaded again by update_status.
BeginArchive ==
    /\ load_task(files, Task001) # None
    /\ update_status_load("codex", Task001, ARCHIVED, ArchiveAuthor(None),
                          "Task archived.", None)

BeginInProgress ==
    \E caller \in Callers :
        update_status_load(caller, Task001, IN_PROGRESS, caller, "Started", None)

BeginProgress ==
    add_progress_update_load("claude", Task001, "claude", "Halfway", None)

FinishProgress ==
    \E caller \in Callers : add_progress_update_save(caller)

NextHistory ==
    \/ Tick
    \/ CallAgain
    \/ BeginInProgress
    \/ BeginArchive
    \/ BeginProgress
    \/ FinishUpdateStatus
    \/ FinishProgress

SpecHistory == InitOverwrite /\ [][NextHistory]_vars

---------------------------------------------------------------------------
(* mark_deliverable_complete on tasks whose deliverables repeat a path *)

DeliverablePaths == { "docs/output.md", "docs/notes.md" }

\* The deliverables lists of the stored task: up to three deliverables, any
\* path more than once.
DeliverableLists ==
    UNION { [ 1..n -> [ path : DeliverablePaths, status : { "pending", "in_progress" } ] ] :
              n \in 1..3 }

\* The file of a task with the deliverables.
DeliverablesFile(stem, deliverables) ==
    ModelDumpJson(SavedTask(BuildTask([ id |-> stem, title |-> "Title",
                                        description |-> "Description",
                                        created |-> 0, updated |-> 0,
                                        deliverables |-> deliverables ]), 0))

InitDeliverables ==
    /\ \E deliverables \in DeliverableLists :
         files = (Task001 :> DeliverablesFile(Task001, deliverables))
    /\ clock = 0
    /\ webhook_manager = TRUE
    /\ fired = << >>
    /\ ret = Ret("init", None, << >>, "ok", None)
    /\ ops = 0
    /\ calls = [ caller \in Callers |-> Idle ]
    /\ webhooks = << >>
    /\ dispatches = << >>

MarkDeliverable ==
    /\ Operation(MaxOps)
    /\ \E id \in TargetIds, path \in DeliverablePaths \union { "missing.md" } :
         mark_deliverable_complete(id, path)

NextDeliverables ==
    \/ Tick
    \/ MarkDeliverable

SpecDeliverables == InitDeliverables /\ [][NextDeliverables]_vars

---------------------------------------------------------------------------
(* The queue get_next_task reads: stores of ready and planned tasks that tie
   on priority and updated *)

QueueStems == { Notes, Task001, Task002 }

QueueFiles(stem) ==
    { ListedFile(stem, status, priority) :
        status \in { READY, PLANNED }, priority \in { "medium", "high" } }

\* The stores: any of the stems, each a task saved at the first clock
\* reading.
QueueStores ==
    { fs \in UNION { [ stems -> UNION { QueueFiles(stem) : stem \in stems } ] :
                       stems \in SUBSET QueueStems } :
        \A stem \in DOMAIN fs : fs[stem] \in QueueFiles(stem) }

InitQueue ==
    /\ files \in QueueStores
    /\ clock = 0
    /\ webhook_manager = TRUE
    /\ fired = << >>
    /\ ret = Ret("init", None, << >>, "ok", None)
    /\ ops = 0
    /\ calls = [ caller \in Callers |-> Idle ]
    /\ webhooks = << >>
    /\ dispatches = << >>

NextQueue ==
    \/ Tick
    \/ GetNextTask
    \/ AddProgressUpdate

SpecQueue == InitQueue /\ [][NextQueue]_vars

---------------------------------------------------------------------------
(* The query operations, between writes *)

\* The queries callers search with: a part of every title in another case,
\* a part of every description, and a text no task carries.
Queries == { << "T", "I", "T" >>, << "s", "c", "r" >>, << "z" >> }

SearchTasksOp ==
    /\ Operation(MaxOps)
    /\ \E query \in Queries : search_tasks(query)

NextQueries ==
    \/ Tick
    \/ GetTask
    \/ ListTasksOp
    \/ GetNextTask
    \/ SearchTasksOp
    \/ GetStarterPrompt
    \/ UpdateStatus

SpecQueries == InitOverwrite /\ [][NextQueries]_vars

---------------------------------------------------------------------------
(* create_task without an id and delete_task, one call after the other, each
   caller keeping the ids its creates returned *)

\* The ids create_task has returned to the caller so far.
Created(caller) ==
    IF "created" \in DOMAIN calls[caller] THEN calls[caller].created ELSE << >>

\* create_task(title, description) by the caller, who keeps the id of the
\* task returned.
CreateIssued ==
    \E caller \in Callers :
        /\ ops < MaxOps
        /\ ops' = ops + 1
        /\ create_task(None, "Title", "Description", "medium", << >>)
        /\ calls' = [ calls EXCEPT ![caller] =
                        [ pc |-> "idle",
                          created |-> IF ret'.outcome = "ok"
                                      THEN Append(Created(caller), ret'.value[1].id)
                                      ELSE Created(caller) ] ]
        /\ UNCHANGED << webhook_manager, webhooks, dispatches >>

DeleteIssued ==
    /\ Operation(MaxOps)
    /\ \E id \in CallerIds : manager_delete_task(id)

NextIssued ==
    \/ Tick
    \/ CreateIssued
    \/ DeleteIssued

SpecIssued == Init /\ [][NextIssued]_vars

---------------------------------------------------------------------------
(* create_task by callers that run at the same time: the call up to its
   save_task, then save_task *)

\* create_task from its start to the validated Task (manager.py, lines
\* 63-89): the id is generated and tested against the store here.
create_task_checks(caller, id, title, description, priority) ==
    LET task_id == IF id = None THEN generate_task_id(files) ELSE id
        args == [ title |-> title, description |-> description,
                  priority |-> priority, kwargs |-> << >> ]
        now == clock
        task_kwargs ==
            [ id |-> task_id, title |-> title, description |-> description,
              priority |-> priority, created |-> now, updated |-> now,
              status |-> DRAFT, prompts |-> Prompts(description, << >>) ]
    IN /\ calls[caller].pc = "idle"
       /\ ops < MaxOps
       /\ ops' = ops + 1
       /\ calls' = [ calls EXCEPT ![caller] =
                       IF Collides(files, task_id)
                       THEN [ pc |-> "done", id |-> id, args |-> args,
                              outcome |-> "already_exists" ]
                       ELSE [ pc |-> "validated", id |-> id, args |-> args,
                              task |-> BuildTask(task_kwargs) ] ]
       /\ UNCHANGED << files, clock, webhook_manager, fired, ret, webhooks, dispatches >>

\* create_task from save_task to its return (manager.py, line 90).
create_task_saves(caller) ==
    LET call == calls[caller]
        saved == SavedTask(call.task, clock)
    IN /\ call.pc = "validated"
       /\ files' = save_task(files, call.task, clock)
       /\ fired' = << >>
       /\ ret' = Ret("create_task", call.id, call.args, "ok", Some(saved))
       /\ calls' = [ calls EXCEPT ![caller] =
                       [ pc |-> "done", id |-> call.id, args |-> call.args,
                         outcome |-> "ok", task |-> saved ] ]
       /\ UNCHANGED << clock, webhook_manager, ops, webhooks, dispatches >>

\* The titles tell the callers' tasks apart.
BeginCreate ==
    \E caller \in Callers, id \in { None, Task001 } :
        create_task_checks(caller, id, "Title", "Description",
                           IF caller = "codex" THEN "high" ELSE "medium")

FinishCreate ==
    \E caller \in Callers : create_task_saves(caller)

NextCreating ==
    \/ Tick
    \/ CallAgain
    \/ BeginCreate
    \/ FinishCreate

SpecCreating == Init /\ [][NextCreating]_vars

---------------------------------------------------------------------------
(* The pick-up workflow of the agents (examples/continuous_agent.py,
   examples/basic_workflow.py, cli.py work): get_next_task, then
   update_status of the task returned to in_progress, add_progress_update and
   update_status to completed *)

\* The ids of the tasks the agent has marked in progress, in the order of
\* its calls.
Taken(agent) ==
    IF "taken" \in DOMAIN calls[agent] THEN calls[agent].taken ELSE << >>

\* main: task = client.get_next_task(). With no task the agent waits for the
\* poll interval and asks again.
agent_get_next_task(agent) ==
    /\ calls[agent].pc \in { "idle", "waiting" }
    /\ get_next_task(None)
    /\ calls' = [ calls EXCEPT ![agent] =
                    IF ret'.value = None
                    THEN [ pc |-> "waiting", taken |-> Taken(agent) ]
                    ELSE [ pc |-> "picked", task |-> ret'.value[1],
                           taken |-> Taken(agent) ] ]
    /\ UNCHANGED << webhook_manager, ops, webhooks, dispatches >>

\* process_task: client.mark_in_progress(task.id, agent)
agent_mark_in_progress(agent) ==
    /\ calls[agent].pc = "picked"
    /\ update_status(calls[agent].task.id, IN_PROGRESS, agent, "Marked in progress", None)
    /\ calls' = [ calls EXCEPT ![agent] =
                    IF ret'.outcome = "ok"
                    THEN [ pc |-> "started", task |-> calls[agent].task,
                           taken |-> Append(Taken(agent), calls[agent].task.id) ]
                    ELSE [ pc |-> "failed", taken |-> Taken(agent) ] ]
    /\ UNCHANGED << webhook_manager, ops, webhooks, dispatches >>

\* process_task: client.get_starter_prompt(task.id), which reads, and
\* client.add_progress_update(task.id, summary, agent)
agent_add_progress_update(agent) ==
    /\ calls[agent].pc = "started"
    /\ add_progress_update(calls[agent].task.id, agent, "Completed successfully", None)
    /\ calls' = [ calls EXCEPT ![agent] =
                    IF ret'.outcome = "ok"
                    THEN [ pc |-> "reported", task |-> calls[agent].task,
                           taken |-> Taken(agent) ]
                    ELSE [ pc |-> "failed", taken |-> Taken(agent) ] ]
    /\ UNCHANGED << webhook_manager, ops, webhooks, dispatches >>

\* process_task: client.mark_completed(task.id, agent), and back to main.
agent_mark_completed(agent) ==
    /\ calls[agent].pc = "reported"
    /\ update_status(calls[agent].task.id, COMPLETED, agent, "Marked completed", None)
    /\ calls' = [ calls EXCEPT ![agent] =
                    IF ret'.outcome = "ok"
                    THEN [ pc |-> "idle", taken |-> Taken(agent) ]
                    ELSE [ pc |-> "failed", taken |-> Taken(agent) ] ]
    /\ UNCHANGED << webhook_manager, ops, webhooks, dispatches >>

AgentStep(agent) ==
    \/ agent_get_next_task(agent)
    \/ agent_mark_in_progress(agent)
    \/ agent_add_progress_update(agent)
    \/ agent_mark_completed(agent)

\* Two agents on one store; the clock moves with the saves.
NextAgents ==
    \/ \E agent \in Callers : agent_get_next_task(agent)
    \/ \E agent \in Callers : agent_mark_in_progress(agent)
    \/ \E agent \in Callers : agent_add_progress_update(agent)
    \/ \E agent \in Callers : agent_mark_completed(agent)

SpecAgents == InitOverwrite /\ [][NextAgents]_vars

\* One agent alone on the store, no other writer.
NextAgent == AgentStep("codex")

SpecAgent == InitQueue /\ [][NextAgent]_vars

\* The agent's loop keeps running: a call it can make is made.
SpecAgentRuns == SpecAgent /\ WF_vars(NextAgent)

---------------------------------------------------------------------------
(* Properties *)

\* The step is one call of the operation op.
Did(op) == ops' = ops + 1 /\ ret'.op = op

\* The identifiers that name a stored record.
StoredIds(fs) == { id \in DOMAIN fs : load_task(fs, id) # None }

\* The stored records.
StoredTasks(fs) == { load_task(fs, id)[1] : id \in StoredIds(fs) }

IsPrefix(a, b) == Len(a) <= Len(b) /\ SubSeq(b, 1, Len(a)) = a

\* How get_next_task may be called.
PriorityFilters == { None } \union { Some(p) : p \in Priority }

\* C1: a successful update_status(id, status, author, summary) leaves the
\* stored task with the given status and with the previous status_updates
\* plus one new last entry that carries that status, author and summary; the
\* earlier entries are as they were, and get(id) then returns this record.
C1_UpdateStatusAppendsOneEntry ==
    [][ (Did("update_status") /\ ret'.outcome = "ok") =>
          LET before == load_task(files, ret'.id)
              after == load_task(files', ret'.id)
          IN /\ before # None
             /\ after # None
             /\ after[1].status = ret'.args.status
             /\ Len(after[1].status_updates) = Len(before[1].status_updates) + 1
             /\ IsPrefix(before[1].status_updates, after[1].status_updates)
             /\ Last(after[1].status_updates).status = ret'.args.status
             /\ Last(after[1].status_updates).author = ret'.args.author
             /\ Last(after[1].status_updates).summary = ret'.args.summary
             /\ ret'.value = after ]_vars

\* C1 witness: update_status has succeeded on a task that already carried a
\* status update, for a status other than the three of the pick-up workflow.
C1_Witness ==
    /\ ret.op = "update_status"
    /\ ret.outcome = "ok"
    /\ ret.args.status = "under_review"
    /\ load_task(files, ret.id) = ret.value
    /\ Len(ret.value[1].status_updates) = 2
    /\ ret.value[1].status_updates[1].status # "under_review"

\* The lifecycle operations that take a task id.
LifecycleOps ==
    { "update_status", "archive_task", "update_task", "replace_task",
      "add_progress_update", "mark_deliverable_complete", "get_starter_prompt",
      "add_followup_prompt", "add_comment" }

\* C2: a lifecycle operation called with an id that names no stored record
\* fails with not-found, writes nothing to the store and fires no webhook
\* event.
C2_MissingIdFailsWithoutWrite ==
    [][ (ops' = ops + 1 /\ ret'.op \in LifecycleOps
           /\ load_task(files, ret'.id) = None) =>
          /\ ret'.outcome = "not_found"
          /\ files' = files
          /\ fired' = << >> ]_vars

\* C2 witness: add_comment has failed on a missing id while the store holds
\* another record.
C2_Witness ==
    /\ ret.op = "add_comment"
    /\ ret.outcome = "not_found"
    /\ ret.id \notin DOMAIN files
    /\ StoredIds(files) # {}

\* The stored tasks get_next_task(priority) chooses among.
ReadyTasks(fs, priority) ==
    { t \in StoredTasks(fs) :
        t.status = READY /\ (priority = None \/ t.priority = priority[1]) }

C4_OnlyReadyReturned ==
    (Did("get_next_task") /\ ret'.value # None) =>
        /\ load_task(files, ret'.value[1].id) = ret'.value
        /\ ret'.value[1].status = READY

\* C4, in every step: when update_status moves a task out of ready,
\* get_next_task answers from then on as if the task were not stored.
C4_LeavesTheQueue ==
    (Did("update_status") /\ ret'.outcome = "ok"
       /\ load_task(files, ret'.id)[1].status = READY
       /\ ret'.args.status # READY) =>
        \A p \in PriorityFilters :
            NextTask(files', p) = NextTask(delete_task(files, ret'.id), p)

\* C4: once update_status has moved a task out of ready, get_next_task does
\* not return it until its status is ready again; with A ready/critical and B
\* ready/high, A is returned, and after A is in progress B is returned.
C4_TakenTaskIsNotReturned ==
    [][C4_OnlyReadyReturned /\ C4_LeavesTheQueue]_vars

\* C4 witness: A (critical) has just been moved to in_progress, B (high) is
\* ready, and get_next_task returns B.
C4_Witness ==
    /\ ret.op = "update_status"
    /\ ret.outcome = "ok"
    /\ ret.args.status = IN_PROGRESS
    /\ ret.value[1].priority = "critical"
    /\ \E b \in StoredTasks(files) :
         /\ b.priority = "high"
         /\ b.status = READY
         /\ NextTask(files, None) = Some(b)

\* The store holds a critical task in status planned, and the only other
\* task has been moved to in_progress.
PlannedCriticalOnly ==
    /\ ret.op = "update_status"
    /\ ret.outcome = "ok"
    /\ ret.args.status = IN_PROGRESS
    /\ Cardinality(StoredIds(files)) = 2
    /\ \E t \in StoredTasks(files) :
         t.id # ret.id /\ t.priority = "critical" /\ t.status = PLANNED

C6_HistoryOnlyGrows ==
    [][ \A id \in StoredIds(files) \intersect StoredIds(files') :
          /\ IsPrefix(load_task(files, id)[1].status_updates,
                      load_task(files', id)[1].status_updates)
          /\ IsPrefix(load_task(files, id)[1].comments,
                      load_task(files', id)[1].comments) ]_vars

\* C8: add_progress_update on a stored task appends one status update, which
\* carries the status the task had and the given author, summary and details;
\* the status and every other field but updated stay as they were.
C8_ProgressUpdateKeepsStatus ==
    [][ (Did("add_progress_update") /\ load_task(files, ret'.id) # None) =>
          LET before == load_task(files, ret'.id)[1]
              after == load_task(files', ret'.id)[1]
          IN /\ ret'.outcome = "ok"
             /\ load_task(files', ret'.id) # None
             /\ Len(after.status_updates) = Len(before.status_updates) + 1
             /\ IsPrefix(before.status_updates, after.status_updates)
             /\ Last(after.status_updates).status = before.status
             /\ Last(after.status_updates).author = ret'.args.author
             /\ Last(after.status_updates).summary = ret'.args.summary
             /\ Last(after.status_updates).details = ret'.args.details
             /\ after.status = before.status
             /\ [ after EXCEPT !.status_updates = before.status_updates,
                               !.updated = before.updated ] = before ]_vars

\* C8 witness: a progress update has been added to a task in progress, after
\* the status update that put it there.
C8_Witness ==
    /\ ret.op = "add_progress_update"
    /\ ret.outcome = "ok"
    /\ ret.value[1].status = IN_PROGRESS
    /\ Len(ret.value[1].status_updates) = 2
    /\ load_task(files, ret.id) = ret.value

\* C9: mark_deliverable_complete on a stored task with no deliverable of
\* exactly that path fails with not-found and leaves the stored task as it
\* was, updated included.
C9_MissingDeliverableLeavesTask ==
    [][ (Did("mark_deliverable_complete") /\ load_task(files, ret'.id) # None
           /\ \A i \in 1..Len(load_task(files, ret'.id)[1].deliverables) :
                load_task(files, ret'.id)[1].deliverables[i].path
                    # ret'.args.deliverable_path) =>
          /\ ret'.outcome = "deliverable_not_found"
          /\ files' = files
          /\ load_task(files', ret'.id) = load_task(files, ret'.id) ]_vars

\* C9 witness: the call has failed on a task that has a deliverable of
\* another path, still in progress.
C9_Witness ==
    /\ ret.op = "mark_deliverable_complete"
    /\ ret.outcome = "deliverable_not_found"
    /\ load_task(files, ret.id) # None
    /\ load_task(files, ret.id)[1].deliverables = OneDeliverable

\* C10: create with an id, given or generated, that names a stored record
\* fails with already-exists and leaves the record as it was; with an id that
\* names no stored record it persists one new record under that id and
\* changes no other record.
C10_CreateNeverOverwrites ==
    [][ (Did("create_task") /\ ret'.outcome # "invalid") =>
          LET task_id == IF ret'.id = None THEN generate_task_id(files) ELSE ret'.id
          IN IF task_id \in StoredIds(files)
             THEN /\ ret'.outcome = "already_exists"
                  /\ files' = files
             ELSE /\ ret'.outcome = "ok"
                  /\ StoredIds(files') = StoredIds(files) \union { task_id }
                  /\ \A other \in DOMAIN files \ { task_id } :
                       other \in DOMAIN files' /\ files'[other] = files[other]
                  /\ load_task(files', task_id) = ret'.value
                  /\ ret'.value[1].id = task_id ]_vars

\* C10 witness: a create with the id of a stored record has failed.
C10_Witness ==
    /\ ret.op = "create_task"
    /\ ret.outcome = "already_exists"
    /\ ret.id \in StoredIds(files)

\* Two callers have finished update_status on the same id, having loaded the
\* same record, and first saved before second.
BothLoadedThenSaved(first, second) ==
    /\ first # second
    /\ calls[first].pc = "done" /\ calls[second].pc = "done"
    /\ calls[first].outcome = "ok" /\ calls[second].outcome = "ok"
    /\ calls[first].id = calls[second].id
    /\ calls[first].seen = calls[second].seen
    /\ calls[first].turn < calls[second].turn

\* The entries of a list.
Entries(seq) == { seq[i] : i \in 1..Len(seq) }

\* C7: when two update_status calls on one id both load the record before
\* either saves, both return successfully and the later save wins: the stored
\* status_updates is the loaded list plus the later writer's entry, without
\* the earlier writer's entry.
C7_LaterSaveWins ==
    \A first, second \in Callers :
        BothLoadedThenSaved(first, second) =>
            LET stored == load_task(files, calls[second].id)[1]
                loaded == calls[second].seen
            IN /\ stored = calls[second].task
               /\ Len(stored.status_updates) = Len(loaded.status_updates) + 1
               /\ IsPrefix(loaded.status_updates, stored.status_updates)
               /\ Last(stored.status_updates) = Last(calls[second].task.status_updates)
               /\ Last(stored.status_updates).author = calls[second].args.author
               /\ Last(calls[first].task.status_updates) \notin Entries(stored.status_updates)
               /\ stored.status = calls[second].args.status

\* C7 witness: both callers loaded the same record, then both saved, with
\* different statuses.
C7_Witness ==
    \E first, second \in Callers :
        /\ BothLoadedThenSaved(first, second)
        /\ calls[first].args.status # calls[second].args.status

\* The numbers N of the stems that read task-N: N written in decimal with any
\* number of leading zeros.
TaskNumbers(fs) ==
    { n \in 0..(MaxSeeded + MaxOps + 9) :
        \E width \in 1..4 : TaskPrefix \o ZeroPad(DigitsOf(n), width) \in DOMAIN fs }

\* The largest of them, 0 when there is none.
LargestTaskNumber(fs) ==
    IF TaskNumbers(fs) = {} THEN 0
    ELSE CHOOSE h \in TaskNumbers(fs) : \A n \in TaskNumbers(fs) : n <= h

\* C11: generate_id returns task-(h+1) padded to three digits, h the largest
\* N among the stored names task-N and 0 without any; numbers below h that
\* are free are not handed out, names outside the scheme do not count, and
\* the id returned names no stored record.
C11_GeneratedIdFollowsLargest ==
    [][ Did("generate_task_id") =>
          /\ ret'.value = Some(TaskPrefix \o Format03d(LargestTaskNumber(files) + 1))
          /\ ret'.value[1] \notin DOMAIN files
          /\ (DOMAIN files \subseteq OtherStems \ { TaskPrefix \o << "9" >> })
                => ret'.value = Some(Task001) ]_vars

\* C11 witness: asked over task-001 to task-007 without task-003, plus
\* notes, the generator has returned task-008.
C11_Witness ==
    /\ ret.op = "generate_task_id"
    /\ DOMAIN files =
         ({ NumberedStem(i) : i \in 1..7 } \ { NumberedStem(3) }) \union { Notes }
    /\ ret.value = Some(NumberedStem(8))

\* C12: replace keeps id and created: whatever the payload, one with an id or
\* a created of its own included, the record stored and returned has the id
\* and the created timestamp of the record that was there before.
C12_ReplaceKeepsIdAndCreated ==
    [][ (Did("replace_task") /\ ret'.outcome = "ok") =>
          LET before == load_task(files, ret'.id)[1]
              after == load_task(files', ret'.id)
          IN /\ after = ret'.value
             /\ after[1].id = before.id
             /\ after[1].created = before.created ]_vars

\* The fields replace_task and save_task set themselves.
ForcedOnReplace == { "id", "updated" }

\* C13: replace merges the payload over the stored record: each field the
\* payload leaves out, each carried collection on its own, keeps the stored
\* value, and each field the payload carries takes the payload's value.
C13_ReplaceMergesOverExisting ==
    [][ (Did("replace_task") /\ ret'.outcome = "ok") =>
          LET before == load_task(files, ret'.id)[1]
              after == load_task(files', ret'.id)[1]
          IN \A field \in TaskFields \ ForcedOnReplace :
               after[field] = IF field \in DOMAIN ret'.args
                              THEN ret'.args[field]
                              ELSE before[field] ]_vars

\* C13 witness: a payload with deliverables only has replaced a task that had
\* a status update; the status update is kept and the deliverables are the
\* payload's.
C13_Witness ==
    /\ ret.op = "replace_task"
    /\ ret.outcome = "ok"
    /\ DOMAIN ret.args = { "deliverables" }
    /\ load_task(files, ret.id) = ret.value
    /\ ret.value[1].deliverables = PayloadValues.deliverables
    /\ Len(ret.value[1].status_updates) = 1
    /\ ret.value[1].status_updates[1].summary = "Halfway"

\* The fields update_task and save_task set themselves.
ForcedOnUpdate == { "id", "created", "updated" }

\* C14: update changes the supplied fields only: each takes the supplied
\* value, every other field but updated keeps its value, and id and created
\* stay as they were even when the payload supplies them.
C14_UpdateChangesSuppliedOnly ==
    [][ (Did("update_task") /\ ret'.outcome = "ok") =>
          LET before == load_task(files, ret'.id)[1]
              after == load_task(files', ret'.id)[1]
          IN /\ load_task(files', ret'.id) = ret'.value
             /\ after.id = before.id
             /\ after.created = before.created
             /\ \A field \in TaskFields \ ForcedOnUpdate :
                  after[field] = IF field \in DOMAIN ret'.args
                                 THEN ret'.args[field]
                                 ELSE before[field] ]_vars

\* C14 witness: an update that supplied another id, a later created and a
\* status has changed the status and left the id and created of the task.
C14_Witness ==
    /\ ret.op = "update_task"
    /\ ret.outcome = "ok"
    /\ "created" \in DOMAIN ret.args
    /\ ret.args.id # ret.id
    /\ ret.value[1].id = ret.id
    /\ ret.value[1].created < ret.args.created
    /\ ret.value[1].status = ret.args.status
    /\ load_task(files, ret.id) = ret.value

\* C19: in every store the manager's operations reach while the clock never
\* goes back, each stored task has updated >= created.
C19_UpdatedNotBeforeCreated ==
    \A id \in DOMAIN files :
        load_task(files, id) # None =>
            load_task(files, id)[1].updated >= load_task(files, id)[1].created

\* C15: archive(id, author?) does what update_status(id, archived, the author
\* given or "system", "Task archived.") does from the same store: the stored
\* task is the one update_status builds (status archived, one entry appended
\* with that summary and author), the events fired are those of update_status,
\* and get(id) still returns the record.
C15_ArchiveIsStatusUpdate ==
    [][ (Did("archive_task") /\ load_task(files, ret'.id) # None) =>
          LET before == load_task(files, ret'.id)[1]
              author == IF ret'.args.author = None THEN "system"
                        ELSE ret'.args.author[1]
              after == load_task(files', ret'.id)
          IN /\ ret'.outcome = "ok"
             /\ after # None
             /\ after = ret'.value
             /\ after[1] = SavedTask(WithStatus(before, clock, ARCHIVED, author,
                                                "Task archived.", None),
                                     after[1].updated)
             /\ after[1].status = ARCHIVED
             /\ after[1].status_updates =
                    Append(before.status_updates,
                           StatusUpdate(clock, author, ARCHIVED, "Task archived.", None))
             /\ fired' = StatusEvents(after[1], ARCHIVED, author, before.status) ]_vars

\* C15 witness: a task with a status update has been archived with no author
\* given; the entry appended is by "system".
C15_Witness ==
    /\ ret.op = "archive_task"
    /\ ret.outcome = "ok"
    /\ ret.args.author = None
    /\ load_task(files, ret.id) = ret.value
    /\ Len(ret.value[1].status_updates) = 2
    /\ Last(ret.value[1].status_updates).author = "system"
    /\ fired # << >>

\* The ids of the tasks list() returns.
ListedIds(fs) == { list_tasks(fs)[i].id : i \in 1..Len(list_tasks(fs)) }

\* C16: delete(id) returns true exactly when a record for id existed; after a
\* true, get(id) is absent, list() is without the task, a second delete(id)
\* returns false, and no other record is changed.
C16_DeleteRemovesOneRecord ==
    [][ Did("delete_task") =>
          /\ ret'.value = Some(load_task(files, ret'.id) # None)
          /\ ret'.value = Some(FALSE) => files' = files
          /\ ret'.value = Some(TRUE) =>
               /\ load_task(files', ret'.id) = None
               /\ ret'.id \notin ListedIds(files')
               /\ ret'.id \notin DOMAIN files'
               /\ DOMAIN files' = DOMAIN files \ { ret'.id }
               /\ \A other \in DOMAIN files' : files'[other] = files[other]
          /\ (ret.op = "delete_task" /\ ret.id = ret'.id /\ ret.value = Some(TRUE))
               => ret'.value = Some(FALSE) ]_vars

\* C16 witness: a delete has returned true and another record is still
\* stored and listed.
C16_Witness ==
    /\ ret.op = "delete_task"
    /\ ret.value = Some(TRUE)
    /\ load_task(files, ret.id) = None
    /\ ListedIds(files) = { Task002 }

\* C17: there is no table of legal transitions: for every pair (s, s') of the
\* nine statuses, s = s' and s completed or archived included, update_status
\* on a task in status s with target s' succeeds and leaves it in status s'.
C17_AnyStatusFromAnyStatus ==
    [][ (Did("update_status") /\ load_task(files, ret'.id) # None) =>
          /\ load_task(files, ret'.id)[1].status \in TaskStatus
          /\ ret'.args.status \in TaskStatus
          /\ ret'.outcome = "ok"
          /\ load_task(files', ret'.id) = ret'.value
          /\ ret'.value[1].status = ret'.args.status ]_vars

\* C17 witness: a task that was archived has been set back to draft.
C17_Witness ==
    /\ ret.op = "update_status"
    /\ ret.outcome = "ok"
    /\ ret.args.status = DRAFT
    /\ load_task(files, ret.id) = ret.value
    /\ ret.value[1].status = DRAFT
    /\ Len(ret.value[1].status_updates) = 2
    /\ ret.value[1].status_updates[1].status = ARCHIVED

\* A status-bearing list has an entry outside the closed set.
SomeStatusOutside(entries, allowed) ==
    \E i \in 1..Len(entries) : entries[i].status \notin allowed

\* The payload carries a value outside its closed set.
CarriesInvalid(payload) ==
    \/ "status" \in DOMAIN payload /\ payload.status \notin TaskStatus
    \/ "priority" \in DOMAIN payload /\ payload.priority \notin Priority
    \/ "deliverables" \in DOMAIN payload
         /\ SomeStatusOutside(payload.deliverables, DeliverableStatus)
    \/ "status_updates" \in DOMAIN payload
         /\ SomeStatusOutside(payload.status_updates, TaskStatus)

\* The call that ret' records carries a value outside its closed set.
CallCarriesInvalid ==
    \/ ret'.op = "create_task"
         /\ (ret'.args.priority \notin Priority \/ CarriesInvalid(ret'.args.kwargs))
    \/ ret'.op \in { "replace_task", "update_task", "update_status" }
         /\ CarriesInvalid(ret'.args)

\* C18, in every step: a create, replace, update or update_status call that
\* carries a value outside its closed set fails and writes nothing; on a
\* stored task (for create: always) the failure is the validation error.
C18_InvalidCallWritesNothing ==
    (ops' = ops + 1 /\ CallCarriesInvalid) =>
        /\ files' = files
        /\ ret'.outcome # "ok"
        /\ (ret'.op = "create_task" \/ load_task(files, ret'.id) # None)
             => ret'.outcome = "invalid"

\* C18, in every state: each file holds a record whose enumerated fields are
\* inside their closed sets.
C18_StoredRecordsValid ==
    \A id \in DOMAIN files :
        /\ ~CarriesInvalid(files[id])
        /\ { "status", "priority", "deliverables", "status_updates" }
               \subseteq DOMAIN files[id]

C20_SaveThenLoadRoundTrips ==
    [][ Did("save_task") =>
          LET task == ret'.args.task
              loaded == load_task(files', task.id)
          IN /\ loaded # None
             /\ \A field \in TaskFields \ { "updated" } : loaded[1][field] = task[field]
             /\ loaded[1].updated = clock'
             /\ loaded = ret'.value ]_vars

\* C20 witness: a task whose history has an entry without details and one
\* with details, and whose follow-up prompt has no context, has been saved
\* later than the updated it carried, over an earlier record of the same id,
\* and loads back as the task save_task returned.
C20_Witness ==
    /\ ret.op = "save_task"
    /\ ops > 1
    /\ LET task == ret.args.task
       IN /\ Len(task.status_updates) = 2
          /\ task.status_updates[1].details = None
          /\ task.status_updates[2].details # None
          /\ Len(task.prompts.followups) = 1
          /\ task.prompts.followups[1].context = None
          /\ task.updated < clock
          /\ load_task(files, task.id) = Some([ task EXCEPT !.updated = clock ])
          /\ load_task(files, task.id) = ret.value

\* The records of fs that load, in file name order.
LoadableInOrder(fs) ==
    LET stems == SortedStems({ stem \in DOMAIN fs : fs[stem] = SeededFile(stem) })
    IN [ i \in 1..Len(stems) |-> BuildTask(ParseDocument(fs[stems[i]])) ]

\* The file is not one that save_task wrote.
IsCorrupt(fs, stem) == stem \in DOMAIN fs /\ fs[stem] # SeededFile(stem)

\* What C21 asks of one load_task or list_tasks step.
CorruptRecordDoesNotBlock ==
    /\ Did("load_task") =>
          /\ ret'.outcome = "ok"
          /\ IsCorrupt(files, ret'.id) => ret'.value = None
          /\ ~IsCorrupt(files, ret'.id) /\ ret'.id \in DOMAIN files => ret'.value # None
    /\ Did("list_tasks") =>
          /\ ret'.outcome = "ok"
          /\ ret'.value = LoadableInOrder(files)

\* C21: load(id) of a record that is unparseable, empty or fails validation
\* returns absent without raising, and list() returns exactly the records
\* that load, in file name order, whatever corrupt records the store holds.
C21_CorruptRecordNeverBlocks == [][CorruptRecordDoesNotBlock]_vars

\* The same asked only of directories whose files all decode as UTF-8: this
\* holds (malformed YAML, empty files and documents that fail validation are
\* skipped).
C21_DecodableRecordNeverBlocks ==
    [][ (\A stem \in DOMAIN files : files[stem] # Undecodable)
          => CorruptRecordDoesNotBlock ]_vars

\* The positions of the full listing whose task passes both filters.
MatchingPositions(full, status, priority) ==
    { i \in 1..Len(full) :
        /\ status # None => full[i].status = status[1]
        /\ priority # None => full[i].priority = priority[1] }

\* The k-th smallest member of a set of positions.
KthPosition(positions, k) ==
    CHOOSE i \in positions : Cardinality({ j \in positions : j < i }) = k - 1

\* C22: list(status?, priority?) returns exactly the tasks of the full store
\* listing whose status equals the given status (when given) and whose
\* priority equals the given priority (when given), in store order; with both
\* filters absent it returns the full listing.
C22_ListFiltersByEquality ==
    [][ Did("list_tasks") =>
          LET full == list_tasks(files)
              listed == ret'.value
              positions == MatchingPositions(full, ret'.args.status, ret'.args.priority)
          IN /\ Len(listed) = Cardinality(positions)
             /\ \A k \in 1..Len(listed) : listed[k] = full[KthPosition(positions, k)]
             /\ ret'.args.status = None /\ ret'.args.priority = None => listed = full ]_vars

\* C22 witness: with three tasks stored, a listing by status and priority
\* has returned the first and the third and left out the second, which has
\* the status but another priority.
C22_Witness ==
    /\ ret.op = "list_tasks"
    /\ ret.args.status = Some(PLANNED)
    /\ ret.args.priority = Some("high")
    /\ Len(list_tasks(files)) = 3
    /\ list_tasks(files)[2].status = PLANNED
    /\ list_tasks(files)[2].priority = "medium"
    /\ ret.value = << list_tasks(files)[1], list_tasks(files)[3] >>

\* The coroutines a step has scheduled.
NewDispatches == SubSeq(dispatches', Len(dispatches) + 1, Len(dispatches'))

\* The step is one operation of the TaskManager.
IsOperation == ops' = ops + 1 /\ ret'.op \in { "update_status", "add_comment" }

\* The webhook is active and has the event in its list.
Subscribed(hook, event) == hook.active /\ InList(event, hook.events)

\* C23: every fire_event call schedules one dispatch for each webhook of the
\* registry that is active and subscribed to the event, carrying that event,
\* and none for any other webhook: every scheduled dispatch is for a fired
\* event and a webhook that is active and subscribed to it, and when no
\* webhook matches nothing is scheduled.
C23_DispatchesToMatchingWebhooksOnly ==
    [][ IsOperation =>
          /\ Len(dispatches') >= Len(dispatches)
          /\ SubSeq(dispatches', 1, Len(dispatches)) = dispatches
          /\ \A i \in 1..Len(fired'), j \in 1..Len(webhooks) :
                Cardinality({ k \in 1..Len(NewDispatches) :
                                /\ NewDispatches[k].webhook = webhooks[j]
                                /\ NewDispatches[k].payload.event = fired'[i].event
                                /\ NewDispatches[k].payload.task = fired'[i].task
                                /\ NewDispatches[k].state = "scheduled" })
                  = IF Subscribed(webhooks[j], fired'[i].event) THEN 1 ELSE 0
          /\ \A k \in 1..Len(NewDispatches) :
                \E i \in 1..Len(fired'), j \in 1..Len(webhooks) :
                   /\ NewDispatches[k].webhook = webhooks[j]
                   /\ NewDispatches[k].payload.event = fired'[i].event
                   /\ Subscribed(webhooks[j], fired'[i].event)
          /\ (\A i \in 1..Len(fired'), j \in 1..Len(webhooks) :
                 ~Subscribed(webhooks[j], fired'[i].event))
               => dispatches' = dispatches ]_vars

\* C23 witness: with a status webhook, an inactive webhook and a webhook for
\* every event registered, an update to completed has fired two events and
\* scheduled three dispatches: the status change to the first and the third
\* webhook and the completion to the third; the inactive one has none.
C23_Witness ==
    /\ ret.op = "update_status"
    /\ ret.outcome = "ok"
    /\ webhooks = << HookStatus, HookInactive, HookAll >>
    /\ Len(fired) = 2
    /\ Len(dispatches) = 3
    /\ dispatches[1].webhook = HookStatus /\ dispatches[1].payload.event = StatusChanged
    /\ dispatches[2].webhook = HookAll /\ dispatches[2].payload.event = StatusChanged
    /\ dispatches[3].webhook = HookAll /\ dispatches[3].payload.event = TaskCompleted

\* C23 second witness: an update of a stored task with only an inactive
\* webhook and a webhook for another event registered has fired its event
\* and scheduled nothing.
C23_NoMatchWitness ==
    /\ ret.op = "update_status"
    /\ ret.outcome = "ok"
    /\ webhooks = << HookInactive, HookCreated >>
    /\ fired # << >>
    /\ dispatches = << >>

\* C24: every successful update_status fires task.status_changed exactly
\* once, also when the new status is the previous one, and task.completed
\* exactly once if and only if the new status is completed, in that order;
\* each event carries the record as it has been saved, with the new status
\* and history entry, triggered_by = author and previous_status = the status
\* stored before the call; a call that fails fires nothing.
C24_StatusEventsAfterSave ==
    [][ Did("update_status") =>
          IF ret'.outcome = "ok"
          THEN LET before == load_task(files, ret'.id)[1]
                   saved == load_task(files', ret'.id)[1]
               IN /\ Len(fired') = IF ret'.args.status = COMPLETED THEN 2 ELSE 1
                  /\ fired'[1].event = "task.status_changed"
                  /\ Len(fired') = 2 => fired'[2].event = "task.completed"
                  /\ saved.status = ret'.args.status
                  /\ Len(saved.status_updates) = Len(before.status_updates) + 1
                  /\ Last(saved.status_updates).status = ret'.args.status
                  /\ \A i \in 1..Len(fired') :
                        /\ fired'[i].task = saved
                        /\ fired'[i].metadata.triggered_by = ret'.args.author
                        /\ fired'[i].metadata.previous_status = before.status
          ELSE fired' = << >> ]_vars

\* C24 witness: a completed task has been set to completed again, and the
\* call has fired task.status_changed and then task.completed, both with
\* previous_status completed and the record now stored.
C24_Witness ==
    /\ ret.op = "update_status"
    /\ ret.outcome = "ok"
    /\ ret.args.status = COMPLETED
    /\ Len(fired) = 2
    /\ fired[1].event = "task.status_changed"
    /\ fired[2].event = "task.completed"
    /\ fired[1].metadata.previous_status = COMPLETED
    /\ fired[2].metadata.previous_status = COMPLETED
    /\ fired[1].task = load_task(files, ret.id)[1]
    /\ Len(fired[1].task.status_updates) = 2

\* The step is a delivery that fails: a scheduled dispatch becomes failed.
DeliveryFails(i) ==
    /\ i \in 1..Len(dispatches)
    /\ dispatches[i].state = "scheduled"
    /\ Len(dispatches') >= i
    /\ dispatches'[i].state = "failed"

\* Each dispatch has made at most one POST, and is scheduled exactly while it
\* has made none.
AtMostOneAttempt ==
    \A i \in 1..Len(dispatches) :
       /\ dispatches[i].attempts <= 1
       /\ dispatches[i].state = "scheduled" <=> dispatches[i].attempts = 0

\* A failed delivery changes nothing but its own dispatch, and a dispatch
\* that has failed or been delivered is never touched again.
FailureIsOnlyLogged ==
    /\ \A i \in 1..Len(dispatches) :
          DeliveryFails(i) =>
            /\ files' = files
            /\ ret' = ret
            /\ webhooks' = webhooks
            /\ Len(dispatches') = Len(dispatches)
            /\ \A k \in 1..Len(dispatches) : k # i => dispatches'[k] = dispatches[k]
            /\ dispatches'[i].webhook = dispatches[i].webhook
    /\ \A i \in 1..Len(dispatches) :
          dispatches[i].state # "scheduled" =>
            Len(dispatches') >= i /\ dispatches'[i] = dispatches[i]

\* C25: a delivery that fails is only logged: the result of the operation
\* that fired the event and the stored task stay as they are, the dispatches
\* to the other webhooks are untouched and can still be delivered, and the
\* failed dispatch is never run again (one POST at most per matched webhook
\* and fired event).
C25_DeliveryFailureIsOnlyLogged ==
    [] AtMostOneAttempt /\ [][FailureIsOnlyLogged]_vars

\* C25 witness: an update_status has returned its task and the record is
\* stored with the new status; of the two dispatches of its status event the
\* first has failed after one POST, leaving its webhook untriggered in the
\* registry, and the second has been delivered.
C25_Witness ==
    /\ ret.op = "update_status"
    /\ ret.outcome = "ok"
    /\ load_task(files, ret.id) = ret.value
    /\ ret.value[1].status = ret.args.status
    /\ Len(dispatches) >= 2
    /\ dispatches[1].payload = dispatches[2].payload
    /\ dispatches[1].webhook.id # dispatches[2].webhook.id
    /\ dispatches[1].state = "failed"
    /\ dispatches[1].attempts = 1
    /\ dispatches[2].state = "delivered"
    /\ \E j \in 1..Len(webhooks) :
          /\ webhooks[j].id = dispatches[1].webhook.id
          /\ webhooks[j].last_triggered = None

\* The ids of the webhooks in a registry file.
WebhookIds(registry) == { registry[j].id : j \in 1..Len(registry) }

\* The stored record of a webhook.
StoredWebhook(registry, id) ==
    registry[CHOOSE j \in 1..Len(registry) : registry[j].id = id]

\* The step completes a successful delivery of dispatch i.
DeliveryCompletes(i) ==
    /\ i \in 1..Len(dispatches)
    /\ dispatches[i].state # "delivered"
    /\ Len(dispatches') >= i
    /\ dispatches'[i].state = "delivered"

\* The fields of a webhook a delivery must leave alone.
FixedWebhookFields == { "id", "url", "events", "secret", "active", "created" }

\* What C26 asks of one step.
TriggerRecordedOnSuccessOnly ==
    /\ \A i \in 1..Len(dispatches) :
          DeliveryCompletes(i) =>
            LET id == dispatches[i].webhook.id
            IN /\ id \in WebhookIds(webhooks')
               /\ StoredWebhook(webhooks', id).last_triggered # None
               /\ StoredWebhook(webhooks', id) = dispatches'[i].webhook
               /\ \A field \in FixedWebhookFields :
                     StoredWebhook(webhooks', id)[field] = dispatches[i].webhook[field]
    /\ \A i \in 1..Len(dispatches) : DeliveryFails(i) => webhooks' = webhooks
    /\ \A id \in WebhookIds(webhooks) \cap WebhookIds(webhooks') :
          StoredWebhook(webhooks', id) # StoredWebhook(webhooks, id) =>
            /\ \E i \in 1..Len(dispatches) :
                  DeliveryCompletes(i) /\ dispatches[i].webhook.id = id
            /\ \A field \in FixedWebhookFields :
                  StoredWebhook(webhooks', id)[field] = StoredWebhook(webhooks, id)[field]

\* C26: the stored record of a webhook changes exactly when a delivery to
\* it succeeds: a successful delivery leaves the registry holding the webhook
\* with its last-triggered data set, a failed delivery leaves the registry
\* as it is, a stored webhook's record is changed only by a successful
\* delivery to that webhook, and url, events, secret, active and created
\* never change.
C26_TriggerRecordedOnSuccessOnly == [][TriggerRecordedOnSuccessOnly]_vars

\* The same on the running event loop, where no save_webhook runs inside
\* another: C26_TriggerRecordedOnSuccessOnly holds under SpecHooks; this
\* reaches a delivery there that has refreshed a webhook triggered before.
C26_EventLoopWitness ==
    /\ Len(dispatches) >= 2
    /\ dispatches[1].state = "delivered"
    /\ dispatches[2].state = "delivered"
    /\ dispatches[1].webhook.id = dispatches[2].webhook.id
    /\ dispatches[1].webhook.last_triggered # dispatches[2].webhook.last_triggered
    /\ StoredWebhook(webhooks, dispatches[1].webhook.id).last_triggered = Some(clock)

\* The ids of the comments on a task.
CommentIds(task) == { task.comments[i].id : i \in 1..Len(task.comments) }

WholeRecordViews ==
    { [ id \in DOMAIN files |->
          IF \E caller \in Callers : calls[caller].pc = "writing" /\ calls[caller].id = id
          THEN LET caller == CHOOSE c \in Callers :
                                calls[c].pc = "writing" /\ calls[c].id = id
               IN IF id \in new THEN calls[caller].document ELSE calls[caller].previous
          ELSE files[id] ] :
        new \in SUBSET DOMAIN files }

\* C28: a get(id), list() or get_next_task() that runs while a stored task
\* is being saved observes, for that task, either the complete previous
\* record or the complete new record: its result is the result of the same
\* call on a store where the file holds one of the two.
C28_ReadersSeeWholeRecords ==
    [][ /\ Did("get_task") =>
             \E view \in WholeRecordViews : ret'.value = load_task(view, ret'.id)
        /\ Did("list_tasks") =>
             \E view \in WholeRecordViews :
                ret'.value = ListTasks(view, ret'.args.status, ret'.args.priority)
        /\ Did("get_next_task") =>
             \E view \in WholeRecordViews :
                ret'.value = NextTask(view, ret'.args.priority) ]_vars

\* The operations of the manager that save a task.
SavingOperations ==
    { "create_task", "replace_task", "update_task", "archive_task", "update_status",
      "add_progress_update", "mark_deliverable_complete", "add_followup_prompt",
      "add_comment" }

\* No stored task carries an updated timestamp a caller supplied.
NoSuppliedUpdated == \A task \in StoredTasks(files) : task.updated \notin SuppliedUpdated

\* A step leaves every record it wrote with the time of the save, and
\* lowers the updated timestamp of no record.
UpdatedIsTimeOfSave ==
    /\ \A id \in StoredIds(files') :
         (id \notin DOMAIN files \/ files'[id] # files[id])
            => load_task(files', id)[1].updated = clock'
    /\ (ops' = ops + 1 /\ ret'.op \in SavingOperations /\ ret'.outcome = "ok")
          => LET id == IF ret'.op = "create_task" THEN ret'.value[1].id ELSE ret'.id
             IN /\ id \in StoredIds(files')
                /\ load_task(files', id)[1].updated = clock'
    /\ \A id \in StoredIds(files) \cap StoredIds(files') :
         load_task(files', id)[1].updated >= load_task(files, id)[1].updated

\* C29: updated is rewritten on every save and never supplied by the
\* caller: after every successful mutating operation the stored updated is
\* the time of that save, an updated value carried by a create, update or
\* replace payload never reaches the store, and the stored updated of a task
\* never decreases.
C29_UpdatedRewrittenOnEverySave ==
    [] NoSuppliedUpdated /\ [][UpdatedIsTimeOfSave]_vars

\* A task stored with time 0 has been updated at time 1 with a payload that
\* carries an updated timestamp, and the store holds 1.
C29_Witness ==
    /\ ret.op = "update_task"
    /\ ret.outcome = "ok"
    /\ "updated" \in DOMAIN ret.args
    /\ clock = 1
    /\ load_task(files, ret.id) # None
    /\ load_task(files, ret.id)[1].created = 0
    /\ load_task(files, ret.id)[1].updated = 1

\* The status of a task is the status of the last entry of its history.
MatchesLastEntry(task) ==
    task.status_updates # << >> => task.status = Last(task.status_updates).status

\* update_status, archive_task and add_progress_update leave the task they
\* save with its status in the last entry of its history.
StatusOperationsRecordStatus ==
    [][ (ops' = ops + 1 /\ ret'.outcome = "ok"
            /\ ret'.op \in { "update_status", "archive_task", "add_progress_update" })
          => /\ load_task(files', ret'.id) # None
             /\ load_task(files', ret'.id)[1].status_updates # << >>
             /\ MatchesLastEntry(load_task(files', ret'.id)[1]) ]_vars

\* C30: every operation that changes the status of a stored task appends
\* an entry recording the new status, so every stored task with a non-empty
\* status_updates list has the status of the last entry of that list.
C30_StatusIsLastRecordedStatus ==
    \A task \in StoredTasks(files) : MatchesLastEntry(task)

\* The timestamps of a history do not decrease in list order.
Chronological(history) ==
    \A i \in 1..Len(history), j \in 1..Len(history) :
        i < j => history[i].timestamp <= history[j].timestamp

\* C31: for any sequence or interleaving of update_status, archive_task and
\* add_progress_update calls on a task, the timestamps of the stored
\* status_updates do not decrease in list order, and the stored updated is
\* not earlier than the timestamp of the last entry.
C31_HistoryIsChronological ==
    \A task \in StoredTasks(files) :
        /\ Chronological(task.status_updates)
        /\ task.status_updates # << >> =>
              task.updated >= Last(task.status_updates).timestamp

\* Two callers appended to the same loaded record at time 0 and both saved,
\* the second at time 1 over the first: the stored history has the one entry
\* of the second, stamped 0, under an updated of 1.
C31_Witness ==
    /\ \A caller \in Callers : calls[caller].pc = "done" /\ calls[caller].outcome = "ok"
    /\ \A caller \in Callers : Len(calls[caller].seen.status_updates) = 0
    /\ load_task(files, Task001) # None
    /\ Len(load_task(files, Task001)[1].status_updates) = 1
    /\ load_task(files, Task001)[1].status_updates[1].timestamp = 0
    /\ load_task(files, Task001)[1].updated = 1

\* C31, with the calls one after the other: a history of two entries stamped
\* 0 and 1.
C31_SequenceWitness ==
    /\ load_task(files, Task001) # None
    /\ Len(load_task(files, Task001)[1].status_updates) = 2
    /\ load_task(files, Task001)[1].status_updates[1].timestamp = 0
    /\ load_task(files, Task001)[1].status_updates[2].timestamp = 1

\* The positions of the deliverables with the path.
WithPath(deliverables, path) ==
    { i \in 1..Len(deliverables) : deliverables[i].path = path }

\* C32: mark_deliverable_complete(id, path) on a task with one or more
\* deliverables of exactly that path sets the status of the first of them in
\* list order to completed and changes no other deliverable and no other
\* field except updated.
C32_FirstMatchIsCompleted ==
    [][ (Did("mark_deliverable_complete") /\ load_task(files, ret'.id) # None
           /\ WithPath(load_task(files, ret'.id)[1].deliverables,
                       ret'.args.deliverable_path) # {}) =>
          LET before == load_task(files, ret'.id)[1]
              matches == WithPath(before.deliverables, ret'.args.deliverable_path)
              first == CHOOSE i \in matches : \A j \in matches : i <= j
          IN /\ ret'.outcome = "ok"
             /\ load_task(files', ret'.id) # None
             /\ LET after == load_task(files', ret'.id)[1]
                IN /\ Len(after.deliverables) = Len(before.deliverables)
                   /\ after.deliverables[first] =
                         [ path |-> ret'.args.deliverable_path, status |-> "completed" ]
                   /\ \A i \in 1..Len(before.deliverables) \ { first } :
                         after.deliverables[i] = before.deliverables[i]
                   /\ \A field \in DOMAIN before \ { "deliverables", "updated" } :
                         after[field] = before[field]
                   /\ DOMAIN after = DOMAIN before ]_vars

\* The call has completed the first of two deliverables of the same path, and
\* the second one of that path is still pending.
C32_Witness ==
    /\ ret.op = "mark_deliverable_complete"
    /\ ret.outcome = "ok"
    /\ load_task(files, ret.id) # None
    /\ LET deliverables == load_task(files, ret.id)[1].deliverables
       IN /\ Len(deliverables) = 3
          /\ deliverables[1].path = ret.args.deliverable_path
          /\ deliverables[1].status = "completed"
          /\ deliverables[2].path # ret.args.deliverable_path
          /\ deliverables[3].path = ret.args.deliverable_path
          /\ deliverables[3].status = "pending"

\* The stems of the ready tasks get_next_task(priority) ranks first: minimal
\* priority rank and, among those, the latest updated.
FirstRanked(fs, priority) ==
    LET task(stem) == load_task(fs, stem)[1]
        ready == { stem \in StoredIds(fs) :
                     /\ task(stem).status = READY
                     /\ priority = None \/ task(stem).priority = priority[1] }
    IN { stem \in ready :
           \A other \in ready :
               \/ priority_rank(task(stem).priority) < priority_rank(task(other).priority)
               \/ /\ priority_rank(task(stem).priority) = priority_rank(task(other).priority)
                  /\ task(stem).updated >= task(other).updated }

\* C33: get_next_task is deterministic: a call repeated with the same
\* priority argument on the same store returns the same task, and among
\* ready candidates that tie on priority rank and updated it returns the one
\* whose file name sorts first.
C33_NextTaskIsDeterministic ==
    [][ Did("get_next_task") =>
          LET first == FirstRanked(files, ret'.args.priority)
          IN /\ (ret.op = "get_next_task" /\ ret.args = ret'.args)
                   => ret'.value = ret.value
             /\ first = {} => ret'.value = None
             /\ first # {} =>
                  ret'.value =
                      load_task(files, CHOOSE stem \in first :
                                         \A other \in first \ { stem } :
                                             StrLess(FileName(stem), FileName(other))) ]_vars

\* get_next_task() has returned task-001 from a store where task-001 and
\* task-002 are ready with the same priority and the same updated.
C33_Witness ==
    /\ ret.op = "get_next_task"
    /\ ret.args.priority = None
    /\ { Task001, Task002 } \subseteq FirstRanked(files, None)
    /\ load_task(files, Task001)[1].updated = load_task(files, Task002)[1].updated
    /\ ret.value = load_task(files, Task001)

QueryOperations ==
    { "get_task", "list_tasks", "get_next_task", "search_tasks", "get_starter_prompt" }

\* C34: get, list, get_next_task, search and get_starter_prompt leave the
\* store unchanged: every stored record, its updated and its status included,
\* is after the call what it was before, and get_next_task selects the same
\* task as before.
C34_QueriesLeaveTheStore ==
    [][ (ops' = ops + 1 /\ ret'.op \in QueryOperations) =>
          /\ files' = files
          /\ clock' = clock
          /\ \A id \in StoredIds(files) : load_task(files', id) = load_task(files, id)
          /\ NextTask(files', None) = NextTask(files, None) ]_vars

\* get_next_task has returned a ready task, and the task is stored as it was
\* returned and is still the one get_next_task selects.
C34_Witness ==
    /\ ret.op = "get_next_task"
    /\ ret.value # None
    /\ load_task(files, ret.value[1].id) = ret.value
    /\ ret.value[1].status = READY
    /\ NextTask(files, ret.args.priority) = ret.value

\* C34, for search: it has returned every stored task for a query in another
\* case than the titles.
C34_SearchWitness ==
    /\ ret.op = "search_tasks"
    /\ ret.args.query = << "T", "I", "T" >>
    /\ Len(ret.value) = 2

\* C35: across any sequence of create calls without an id and delete calls
\* the generator never issues the same id twice: no id has been returned by
\* two creates, also when the task of the earlier one has been deleted.
C35_GeneratedIdsNeverRepeat ==
    \A c1 \in Callers, c2 \in Callers :
        \A i \in 1..Len(Created(c1)), j \in 1..Len(Created(c2)) :
            (c1 # c2 \/ i # j) => Created(c1)[i] # Created(c2)[j]

\* What the generator does keep: the id issued names no stored record, and
\* its number is above the number of every stored numbered record.
IssuedIdIsAboveStored ==
    [][ (Did("create_task") /\ ret'.outcome = "ok") =>
          /\ ret'.value[1].id \notin StoredIds(files)
          /\ \A id \in StoredIds(files) :
                StartsWith(id, TaskPrefix) /\ ParseInt(SubSeq(id, Len(TaskPrefix) + 1, Len(id))) >= 0
                  => ParseInt(SubSeq(id, Len(TaskPrefix) + 1, Len(id)))
                       < ParseInt(SubSeq(ret'.value[1].id, Len(TaskPrefix) + 1,
                                         Len(ret'.value[1].id))) ]_vars

\* The callers whose create has returned a task.
HaveCreated == { caller \in Callers : calls[caller].pc = "done" /\ calls[caller].outcome = "ok" }

\* C36: for any interleaving of two creates that both leave the id out, or
\* both give the same id, at most one succeeds for an id: two successful
\* creates never return the same id, and the record one of them wrote is
\* never overwritten by the other.
C36_OneCreatePerId ==
    /\ [] (\A c1 \in HaveCreated, c2 \in HaveCreated :
              c1 # c2 => calls[c1].task.id # calls[c2].task.id)
    /\ [][ \A caller \in Callers :
              (calls[caller].pc = "validated" /\ calls'[caller].pc = "done")
                 => calls[caller].task.id \notin StoredIds(files) ]_vars

\* The test of create_task does its part: a create goes on to save_task only
\* with an id that names no stored record at the time of the test.
CreateTestsTheStore ==
    [][ \A caller \in Callers :
          (calls[caller].pc = "idle" /\ calls'[caller].pc = "validated")
             => calls'[caller].task.id \notin StoredIds(files) ]_vars

\* C37: two agents that run the pick-up workflow at the same time never
\* both take the same task: no task has been marked in progress by both (no
\* task goes back to ready in these runs).
C37_OneAgentPerTask ==
    \A a1 \in Callers, a2 \in Callers :
        a1 # a2 =>
          \A i \in 1..Len(Taken(a1)), j \in 1..Len(Taken(a2)) :
              Taken(a1)[i] # Taken(a2)[j]

\* An agent alone at its pick-up does take a ready task: when it marks the
\* task in progress and no other agent holds a task picked before, the task
\* is stored as ready.
PickedAloneIsReady ==
    [][ \A agent \in Callers :
          (calls[agent].pc = "picked" /\ calls'[agent].pc = "started"
             /\ \A other \in Callers \ { agent } :
                   calls[other].pc \in { "idle", "waiting" } /\ Taken(other) = << >>)
            => load_task(files, calls[agent].task.id)[1].status = READY ]_vars

\* The queue is drained: get_next_task has returned absent, no stored task
\* is ready and every task the agent took is completed.
Drained ==
    /\ calls["codex"].pc = "waiting"
    /\ \A task \in StoredTasks(files) : task.status # READY
    /\ \A i \in 1..Len(Taken("codex")) :
         load_task(files, Taken("codex")[i])[1].status = COMPLETED

\* No task has been taken twice.
TakenOnce ==
    \A i \in 1..Len(Taken("codex")), j \in 1..Len(Taken("codex")) :
        i # j => Taken("codex")[i] # Taken("codex")[j]

\* A task leaves ready only by being taken, and the task taken is ready and
\* of minimal priority rank among the ready tasks.
TakenInOrder ==
    /\ \A id \in StoredIds(files) :
         (load_task(files, id)[1].status = READY
            /\ load_task(files', id)[1].status # READY)
           => Taken("codex")' = Append(Taken("codex"), id)
    /\ Taken("codex")' # Taken("codex") =>
         LET taken == load_task(files, Last(Taken("codex")'))[1]
         IN /\ taken.status = READY
            /\ \A other \in StoredTasks(files) :
                 other.status = READY =>
                   priority_rank(taken.priority) <= priority_rank(other.priority)
    /\ StoredIds(files') = StoredIds(files)

\* C38: one agent that repeats get_next_task, update_status(in_progress),
\* add_progress_update, update_status(completed), with no other writer and
\* no failing call, drains the queue: eventually get_next_task returns
\* absent and every task that was ready is completed, each of them taken
\* exactly once and in priority-rank order.
C38_AgentDrainsQueue ==
    /\ <>[] Drained
    /\ [] TakenOnce
    /\ [][TakenInOrder]_vars

\* The agent has drained a store of three ready tasks, one of them of another
\* priority than the others.
C38_Witness ==
    /\ Drained
    /\ Len(Taken("codex")) = 3
    /\ \E i \in 1..3, j \in 1..3 :
         load_task(files, Taken("codex")[i])[1].priority
            # load_task(files, Taken("codex")[j])[1].priority

\* The ids of the webhooks the runs register.
HookIds == { HookStatus.id, HookAll.id, HookInactive.id, HookCreated.id }

\* With no create_webhook among the steps, a webhook id is missing from the
\* registry because it never was registered, and then no coroutine holds it,
\* or because delete_webhook removed it. Such an id is not in the registry
\* after the step either, and the step schedules no coroutine for it.
DeletedStaysDeleted ==
    \A id \in HookIds :
        id \notin WebhookIds(webhooks) =>
          /\ id \notin WebhookIds(webhooks')
          /\ \A i \in (Len(dispatches) + 1)..Len(dispatches') :
               dispatches'[i].webhook.id # id

\* C39: a deleted webhook stays deleted. Once delete_webhook(id) has
\* returned True, the registry holds no webhook with that id in any later
\* state, and no later fire_event schedules a delivery to it, also when
\* deliveries scheduled before the delete complete after it.
C39_DeletedWebhookStaysDeleted ==
    /\ [] ((ret.op = "delete_webhook" /\ ret.value = Some(TRUE))
             => ret.id[1] \notin WebhookIds(webhooks))
    /\ [][DeletedStaysDeleted]_vars

\* delete_webhook itself removes the entry: the registry it leaves holds no
\* webhook with the id, and it returns True exactly when it removed one.
DeleteRemovesTheEntry ==
    [][ Did("delete_webhook") =>
          /\ ret'.id[1] \notin WebhookIds(webhooks')
          /\ ret'.value = Some(ret'.id[1] \in WebhookIds(webhooks)) ]_vars

\* Every webhook of the registry is listed and returned by get_webhook, and
\* the registry holds one entry for its id.
RegisteredOnce ==
    \A i \in 1..Len(webhooks) :
        /\ InList(webhooks[i], list_webhooks(webhooks))
        /\ get_webhook(webhooks, webhooks[i].id) = Some(webhooks[i])
        /\ \A j \in 1..Len(webhooks) : webhooks[j].id = webhooks[i].id => j = i

\* The webhook create_webhook returns is in the registry, and a webhook id
\* leaves the registry only in a delete_webhook of that id.
RemovedOnlyByDelete ==
    /\ Did("create_webhook") => ret'.id[1] \in WebhookIds(webhooks')
    /\ \A id \in WebhookIds(webhooks) \ WebhookIds(webhooks') :
         Did("delete_webhook") /\ ret'.id = Some(id)

\* C40: a registered webhook is removed only by an explicit delete. Under
\* any interleaving of create_webhook, delete_webhook and the save_webhook
\* calls of background deliveries, every webhook for which create_webhook
\* has returned and delete_webhook has not been called is listed and is
\* returned by get_webhook, and the registry holds at most one entry per
\* webhook id.
C40_RemovedOnlyByDelete ==
    /\ [] RegisteredOnce
    /\ [][RemovedOnlyByDelete]_vars

====
